---- MODULE Spec2Model ----
(***************************************************************************)
(* A model of the typconv codec: the binary TYP reader and writer, the     *)
(* mkgmap text reader and writer, and the small codecs they are built on   *)
(* (type/subtype word, bit-packed bitmaps, label blocks).                  *)
(*                                                                         *)
(* Bytes are naturals 0..255, byte slices and strings are sequences of     *)
(* bytes (a string holds UTF-8).  Every conversion in the program          *)
(* is an operator computed the way the code computes it; the actions of    *)
(* each specification apply these operators to inputs drawn by Init.       *)
(***************************************************************************)
EXTENDS Integers, Sequences, FiniteSets, TLC

VARIABLES
    pc,        \* position of the run inside the conversion being modelled
    t16,       \* type codec: the 16-bit wire word
    tdec,      \* type codec: [typ, subtyp] returned by decodeTypeSubtype
    tenc,      \* type codec: the word returned by encodeTypeSubtype
    feature,   \* type codec: [typ, subtyp], the Type and SubType of a feature
    index,     \* index array: the records, array, data size, modulo, entries read
    bmp,       \* bitmap codec: [width, height, bpp, data, pos], the plane to pack
    packed,    \* bitmap codec: [err, bytes] produced by writeBitmap
    unpacked,  \* bitmap codec: [err, data, n] returned by readBitmap
    icon,      \* point record: the point, the record written, the record read
    codePage,  \* label codec: Header.CodePage selecting encoder and decoder
    labels,    \* label codec: the label map handed to writeLabels
    lblock,    \* label codec: [err, bytes, order] produced by writeLabels
    lread,     \* label codec: [err, labels, n] returned by readLabels
    bins,      \* converter: the binary files, the input and those written
    txts,      \* converter: the text files, the input and those written
    cats,      \* converter: the catalogs the readers have returned
    typFile,   \* converter: the catalog (typ) being built by the running reader
    rd,        \* converter: the binary reader (header, decoder, loop state)
    input,     \* converter: the format of the file the run started from
    opts,      \* converter: the --fid, --pid and --codepage flags of txt2bin
    err        \* converter: the error the run ended with, "" for none

typeVars   == <<t16, tdec, tenc, feature, index>>
bitmapVars == <<bmp, packed, unpacked, icon>>
labelVars  == <<codePage, labels, lblock, lread>>
convVars   == <<bins, txts, cats, typFile, rd, input, opts, err>>
vars == <<pc, typeVars, bitmapVars, labelVars, convVars>>

----------------------------------------------------------------------------
(* Fixed-width integer arithmetic.                                         *)

RECURSIVE Pow2(_)
Pow2(n) == IF n = 0 THEN 1 ELSE 2 * Pow2(n - 1)

RECURSIVE BitAnd(_, _)
BitAnd(a, b) ==
    IF a = 0 \/ b = 0 THEN 0
    ELSE (IF a % 2 = 1 /\ b % 2 = 1 THEN 1 ELSE 0) + 2 * BitAnd(a \div 2, b \div 2)

RECURSIVE BitOr(_, _)
BitOr(a, b) ==
    IF a = 0 THEN b
    ELSE IF b = 0 THEN a
    ELSE (IF a % 2 = 1 \/ b % 2 = 1 THEN 1 ELSE 0) + 2 * BitOr(a \div 2, b \div 2)

Shl(a, n) == a * Pow2(n)
Shr(a, n) == a \div Pow2(n)

U8(x)  == x % 256
U16(x) == x % 65536

----------------------------------------------------------------------------
(* Type/subtype bit codec.                                                 *)

\* Reader.decodeTypeSubtype: unpack the 16-bit field into (typ, subtyp).
decodeTypeSubtype(w) ==
    LET t16_2  == U16(BitOr(Shr(w, 5), U16(Shl(BitAnd(w, 31), 11))))
        typ    == BitAnd(t16_2, 2047)
        subtyp == BitAnd(w, 31)
    IN  IF BitAnd(w, 8192) # 0
        THEN [typ |-> BitOr(BitOr(65536, Shl(typ, 8)), subtyp), subtyp |-> subtyp]
        ELSE [typ |-> Shl(typ, 8) + subtyp, subtyp |-> subtyp]

\* Writer.encodeTypeSubtype: the subtype argument is overwritten from the
\* type code in both branches before it is used.
encodeTypeSubtype(typ, subtyp) ==
    LET ext     == typ >= 65536
        t0      == IF ext THEN 8192 ELSE 0
        subtyp1 == BitAnd(typ, 255)
        typ1    == IF ext THEN BitAnd(Shr(typ, 8), 2047) ELSE Shr(typ, 8)
        t16_2   == BitOr(BitAnd(U16(typ1), 2047), U16(Shl(U16(subtyp1), 11)))
        t1      == BitOr(t0, BitAnd(U16(Shl(t16_2, 5)), 65504))
    IN  BitOr(t1, BitAnd(Shr(t16_2, 11), 31))

----------------------------------------------------------------------------
(* Bit-packed bitmap codec.                                                *)

\* Both calculateBPP functions (reader and writer) are the same ladder.
calculateBPP(ncolors) ==
    IF ncolors <= 2 THEN 1
    ELSE IF ncolors <= 4 THEN 2
    ELSE IF ncolors <= 16 THEN 4
    ELSE 8

\* bytesNeeded of writeBitmap and readBitmap.
BytesNeeded(width, height, bpp) ==
    LET bitsTotal == width * height * bpp
    IN  (bitsTotal \div 8) + (IF bitsTotal % 8 # 0 THEN 1 ELSE 0)

\* OrPixels with the pixels of a byte laid out least significant first.
RECURSIVE OrPixelsLSB(_, _, _, _)
OrPixelsLSB(px, lo, hi, bpp) ==
    IF lo > hi \/ lo >= Len(px) THEN 0
    ELSE LET p == px[lo + 1]
             v == IF bpp = 1 THEN (IF p > 0 THEN U8(Shl(1, lo % 8)) ELSE 0)
                  ELSE IF bpp = 2 THEN U8(Shl(BitAnd(p, 3), (lo % 4) * 2))
                  ELSE IF lo % 2 = 0 THEN BitAnd(p, 15)
                  ELSE U8(Shl(BitAnd(p, 15), 4))
         IN  BitOr(v, OrPixelsLSB(px, lo + 1, hi, bpp))

\* OR of f(i) over the pixels i (0-based) in lo..hi, as the packing loops
\* accumulate into packedData[byteIdx].
RECURSIVE OrPixels(_, _, _, _)
OrPixels(px, lo, hi, bpp) ==
    IF lo > hi \/ lo >= Len(px) THEN 0
    ELSE LET p == px[lo + 1]
             v == IF bpp = 1 THEN (IF p > 0 THEN U8(Shl(1, 7 - (lo % 8))) ELSE 0)
                  ELSE IF bpp = 2 THEN U8(Shl(BitAnd(p, 3), (3 - (lo % 4)) * 2))
                  ELSE IF lo % 2 = 0 THEN U8(Shl(BitAnd(p, 15), 4))
                  ELSE BitAnd(p, 15)
         IN  BitOr(v, OrPixels(px, lo + 1, hi, bpp))

\* Writer.writeBitmap: pack one byte per pixel into bpp bits per pixel,
\* most significant bits first.  Returns the bytes appended to the buffer.
writeBitmap(pixelData, width, height, bpp) ==
    LET totalPixels == width * height
        bytesNeeded == BytesNeeded(width, height, bpp)
        perByte     == 8 \div bpp
    IN  IF Len(pixelData) # totalPixels THEN [err |-> TRUE, bytes |-> <<>>]
        ELSE IF bpp \notin {1, 2, 4, 8} THEN [err |-> TRUE, bytes |-> <<>>]
        ELSE IF bpp = 8 THEN [err |-> FALSE, bytes |-> pixelData]
        ELSE [err   |-> FALSE,
              bytes |-> [k \in 1 .. bytesNeeded |->
                            OrPixels(pixelData, (k - 1) * perByte,
                                     k * perByte - 1, bpp)]]

\* Reader.readBitmap: unpack width*height pixels from buf starting at the
\* 0-based offset pos.  Returns the pixel plane and the bytes consumed.
readBitmap(buf, pos, width, height, bpp) ==
    LET bytesNeeded == BytesNeeded(width, height, bpp)
        totalPixels == width * height
        NoBitmap    == [err |-> TRUE, data |-> <<>>, n |-> 0]
        At(o)       == buf[pos + o + 1]
        Pixel(i)    ==
            IF bpp = 1 THEN BitAnd(Shr(At(i \div 8), 7 - (i % 8)), 1)
            ELSE IF bpp = 2 THEN BitAnd(Shr(At(i \div 4), (3 - (i % 4)) * 2), 3)
            ELSE IF bpp = 4 THEN
                (IF i % 2 = 0 THEN BitAnd(Shr(At(i \div 2), 4), 15)
                              ELSE BitAnd(At(i \div 2), 15))
            ELSE At(i)
    IN  IF pos + bytesNeeded > Len(buf) THEN NoBitmap
        ELSE IF bpp \notin {1, 2, 4, 8} THEN NoBitmap
        ELSE [err  |-> FALSE,
              data |-> [i \in 1 .. totalPixels |-> Pixel(i - 1)],
              n    |-> bytesNeeded]

----------------------------------------------------------------------------
(* Strings and codepages.  A Go string is its sequence of UTF-8 bytes; a   *)
(* range loop over it yields code points, U+FFFD for each invalid byte.    *)

RuneError == 65533

\* string(r) for each code point of a sequence: the UTF-8 bytes of code
\* points of the basic plane (by halves, to keep the evaluation shallow).
RECURSIVE Utf8Str(_)
Utf8Str(runes) ==
    LET Utf8Enc(r) ==
            IF r < 128 THEN <<r>>
            ELSE IF r < 2048 THEN <<192 + (r \div 64), 128 + (r % 64)>>
            ELSE <<224 + (r \div 4096), 128 + ((r \div 64) % 64), 128 + (r % 64)>>
        h == Len(runes) \div 2
    IN  IF runes = <<>> THEN <<>>
        ELSE IF Len(runes) = 1 THEN Utf8Enc(runes[1])
        ELSE Utf8Str(SubSeq(runes, 1, h)) \o Utf8Str(SubSeq(runes, h + 1, Len(runes)))

\* for _, r := range s: a code point starts at every byte that is not a
\* continuation byte of a valid sequence; an invalid byte yields U+FFFD.
\* Lead2 and Lead3: a valid two-byte or three-byte sequence starts at i.
Runes(s) ==
    LET IsCont(b) == b >= 128 /\ b <= 191
        Lead2(i) ==
            /\ i >= 1 /\ i + 1 <= Len(s)
            /\ s[i] >= 194 /\ s[i] <= 223 /\ IsCont(s[i + 1])
        Lead3(i) ==
            /\ i >= 1 /\ i + 2 <= Len(s)
            /\ s[i] >= 224 /\ s[i] <= 239 /\ IsCont(s[i + 1]) /\ IsCont(s[i + 2])
            /\ (s[i] - 224) * 4096 + (s[i + 1] - 128) * 64 >= 2048
        Start(i) == ~(Lead2(i - 1) \/ Lead3(i - 1) \/ Lead3(i - 2))
        starts   == SelectSeq([i \in 1 .. Len(s) |-> i], Start)
        Rune(i)  ==
            IF s[i] < 128 THEN s[i]
            ELSE IF Lead2(i) THEN (s[i] - 192) * 64 + (s[i + 1] - 128)
            ELSE IF Lead3(i)
                 THEN (s[i] - 224) * 4096 + (s[i + 1] - 128) * 64 + (s[i + 2] - 128)
            ELSE RuneError
    IN  [k \in 1 .. Len(starts) |-> Rune(starts[k])]

\* charmap.Windows1252, bytes 0x80..0x9F; the other bytes map to themselves.
Cp1252C1 ==
    <<8364, 129, 8218, 402, 8222, 8230, 8224, 8225, 710, 8240, 352, 8249, 338,
      141, 381, 143, 144, 8216, 8217, 8220, 8221, 8226, 8211, 8212, 732, 8482,
      353, 8250, 339, 157, 382, 376>>

\* charmap.Windows1250, restricted to the Hungarian letters of its upper
\* half: <<byte, code point>>.  Other upper-half bytes are outside the model.
Cp1250High ==
    { <<193, 193>>, <<201, 201>>, <<205, 205>>, <<211, 211>>, <<213, 336>>,
      <<214, 214>>, <<218, 218>>, <<219, 368>>, <<220, 220>>, <<225, 225>>,
      <<233, 233>>, <<237, 237>>, <<243, 243>>, <<245, 337>>, <<246, 246>>,
      <<250, 250>>, <<251, 369>>, <<252, 252>> }

\* Decoder of one byte under a charmap.
CharmapDecode(cm, b) ==
    IF b < 128 THEN b
    ELSE IF cm = "Windows1252" THEN (IF b >= 160 THEN b ELSE Cp1252C1[b - 127])
    ELSE IF \E p \in Cp1250High : p[1] = b
         THEN (CHOOSE p \in Cp1250High : p[1] = b)[2]
         ELSE RuneError

\* Encoder of one code point under a charmap: the byte, or -1 when the
\* charmap cannot represent it.
CharmapEncode(cm, r) ==
    IF r < 128 THEN r
    ELSE IF cm = "Windows1252" THEN
        (IF r >= 160 /\ r <= 255 THEN r
         ELSE IF \E i \in 1 .. 32 : Cp1252C1[i] = r
              THEN 127 + (CHOOSE i \in 1 .. 32 : Cp1252C1[i] = r)
              ELSE 0 - 1)
    ELSE IF \E p \in Cp1250High : p[2] = r
         THEN (CHOOSE p \in Cp1250High : p[2] = r)[1]
         ELSE 0 - 1

\* Reader.ReadHeader and Writer.setupEncoder pick the charmap by the same
\* switch: 1252, 1250, UTF-8 (no charmap), anything else Windows-1252.
setupEncoder(cp) ==
    IF cp = 1252 THEN "Windows1252"
    ELSE IF cp = 1250 THEN "Windows1250"
    ELSE IF cp = 65001 THEN "nil"
    ELSE "Windows1252"

\* Writer.encodeString: rune by rune, '?' for what the charmap lacks.
encodeString(cm, str) ==
    IF cm = "nil" THEN str
    ELSE LET rs == Runes(str)
         IN  [i \in 1 .. Len(rs) |->
                 IF CharmapEncode(cm, rs[i]) < 0 THEN 63 ELSE CharmapEncode(cm, rs[i])]

\* Reader.decodeString: the decoder's output is a UTF-8 string.
decodeString(cm, data) ==
    IF cm = "nil" THEN data
    ELSE Utf8Str([i \in 1 .. Len(data) |-> CharmapDecode(cm, data[i])])

----------------------------------------------------------------------------
(* Label block codec.  A language-code key is the two characters of its    *)
(* hexadecimal form; a label map is a function from keys to strings.       *)

\* "0123456789abcdef"
HexDigits == <<48, 49, 50, 51, 52, 53, 54, 55, 56, 57, 97, 98, 99, 100, 101, 102>>

\* fmt.Sprintf("%02x", langCode)
Sprintf02x(b) == <<HexDigits[(b \div 16) + 1], HexDigits[(b % 16) + 1]>>

\* fmt.Sscanf(langCodeStr, "%x", &langCode) into a byte: the longest run of
\* hexadecimal digits, of either case, at the start of the key; what
\* follows the run is left unread.  -1 is the error: no digit, or a value
\* over 255.
SscanfHex(key, acc) ==
    LET HexVal(c) ==
            IF c \in 48 .. 57 THEN c - 48
            ELSE IF c \in 97 .. 102 THEN c - 87
            ELSE IF c \in 65 .. 70 THEN c - 55
            ELSE 0 - 1
        stop == {i \in 1 .. Len(key) : HexVal(key[i]) < 0}
        n    == IF stop = {} THEN Len(key)
                ELSE (CHOOSE i \in stop : \A j \in stop : i <= j) - 1
        V[i \in 0 .. n] ==
            IF i = 0 THEN acc
            ELSE IF V[i - 1] < 0 \/ V[i - 1] * 16 + HexVal(key[i]) > 255
            THEN 0 - 1
            ELSE V[i - 1] * 16 + HexVal(key[i])
    IN  IF n = 0 THEN 0 - 1 ELSE V[n]

\* labelsBuf of writeLabels: langcode, encoded text, 0x00 for each key in
\* the order the map iteration yields them.
RECURSIVE LabelsData(_, _, _)
LabelsData(cm, lm, order) ==
    IF order = <<>> THEN <<>>
    ELSE <<SscanfHex(Head(order), 0)>> \o encodeString(cm, lm[Head(order)]) \o <<0>>
         \o LabelsData(cm, lm, Tail(order))

\* writeLabels with the prefix value 2*D + n for both prefix sizes.
writeLabelsFlat(cm, lm, order) ==
    LET badKey == \E i \in 1 .. Len(order) :
                      order[i] = <<>> \/ SscanfHex(order[i], 0) < 0
        length16(actualLength) == BitAnd(U16(actualLength * 2 + 2), 65534)
        Prefixed(labelsData) ==
            IF Len(labelsData) * 2 + 1 > 255
            THEN [err   |-> FALSE,
                  bytes |-> <<BitAnd(length16(Len(labelsData)), 255),
                              Shr(length16(Len(labelsData)), 8)>> \o labelsData,
                  order |-> order]
            ELSE [err   |-> FALSE,
                  bytes |-> <<U8(BitOr(Len(labelsData) * 2 + 1, 1))>> \o labelsData,
                  order |-> order]
    IN  IF badKey THEN [err |-> TRUE, bytes |-> <<>>, order |-> order]
        ELSE Prefixed(LabelsData(cm, lm, order))

\* Writer.writeLabels: the prefix counts 2*n per data byte plus n.
writeLabels(cm, lm, order) ==
    LET badKey == \E i \in 1 .. Len(order) :
                      order[i] = <<>> \/ SscanfHex(order[i], 0) < 0
        length16(actualLength) == BitAnd(U16(actualLength * 4 + 2), 65534)
        Prefixed(labelsData) ==
            IF Len(labelsData) * 2 + 1 > 255
            THEN [err   |-> FALSE,
                  bytes |-> <<BitAnd(length16(Len(labelsData)), 255),
                              Shr(length16(Len(labelsData)), 8)>> \o labelsData,
                  order |-> order]
            ELSE [err   |-> FALSE,
                  bytes |-> <<U8(BitOr(Len(labelsData) * 2 + 1, 1))>> \o labelsData,
                  order |-> order]
    IN  IF badKey THEN [err |-> TRUE, bytes |-> <<>>, order |-> order]
        ELSE Prefixed(LabelsData(cm, lm, order))

maxStringLen == 256

\* The inner loop of readLabels: one null-terminated string.  The loop
\* runs while length > 0, pos < len(buf) and len(str) < maxStringLen, so it
\* looks at no more than `room` bytes and stops after the first 0x00.
ReadLabelString(buf, pos, length, n) ==
    LET Min(a, b) == IF a < b THEN a ELSE b
        steps == IF length <= 0 THEN 0 ELSE (length + 2 * n - 1) \div (2 * n)
        room  == Min(Min(steps, Len(buf) - pos), maxStringLen)
        nuls  == {k \in 0 .. room - 1 : buf[pos + k + 1] = 0}
    IN  IF nuls # {}
        THEN LET k == CHOOSE x \in nuls : \A y \in nuls : x <= y
             IN  [pos    |-> pos + k + 1,
                  length |-> length - 2 * n * (k + 1),
                  str    |-> SubSeq(buf, pos + 1, pos + k)]
        ELSE [pos    |-> pos + room,
              length |-> length - 2 * n * room,
              str    |-> SubSeq(buf, pos + 1, pos + room)]

\* The test that guards labels[...] = labelText in readLabels;
\* printableCount is taken over the code points of the label.
KeepLabel(cm, str) ==
    LET labelText == decodeString(cm, str)
        rs == Runes(labelText)
        printableCount ==
            Cardinality({i \in 1 .. Len(rs) :
                            (rs[i] >= 32 /\ rs[i] < 127) \/ rs[i] >= 160})
    IN  /\ Len(str) > 0
        /\ Len(str) < maxStringLen
        /\ Len(labelText) > 0
        /\ (printableCount * 100) \div Len(labelText) >= 70

\* The outer loop of readLabels: one entry per iteration.
RECURSIVE ReadLabelEntries(_, _, _, _, _, _)
ReadLabelEntries(cm, buf, pos, length, n, lm) ==
    IF ~(length > 0 /\ pos < Len(buf)) THEN [labels |-> lm, pos |-> pos]
    ELSE IF length < 2 * n THEN [labels |-> lm, pos |-> pos]
    ELSE LET langCode == buf[pos + 1]
             pos1     == pos + 1
             length1  == length - 2 * n
         IN  IF langCode > 64 /\ langCode # 188 THEN [labels |-> lm, pos |-> pos1 - 1]
             ELSE IF pos1 >= Len(buf) THEN [labels |-> lm, pos |-> pos1]
             ELSE LET st  == ReadLabelString(buf, pos1, length1, n)
                      key == Sprintf02x(langCode)
                      lm1 == IF KeepLabel(cm, st.str)
                             THEN [k \in DOMAIN lm \cup {key} |->
                                      IF k = key THEN decodeString(cm, st.str) ELSE lm[k]]
                             ELSE lm
                  IN  ReadLabelEntries(cm, buf, st.pos, st.length, n, lm1)

\* Reader.readLabels: labels, bytes read, error.  Bit 0 of the first byte
\* selects the one-byte prefix (n = 1); otherwise the prefix has two bytes.
readLabels(cm, buf) ==
    LET Done(r) == [err |-> FALSE, labels |-> r.labels, n |-> r.pos]
    IN  IF Len(buf) < 1 THEN [err |-> TRUE, labels |-> <<>>, n |-> 0]
        ELSE IF buf[1] % 2 = 0 /\ 1 >= Len(buf)
        THEN [err |-> FALSE, labels |-> <<>>, n |-> 1]
        ELSE Done(ReadLabelEntries(
                 cm, buf,
                 IF buf[1] % 2 = 0 THEN 2 ELSE 1,
                 IF buf[1] % 2 = 0 THEN BitOr(buf[1], Shl(buf[2], 8)) - 2
                                   ELSE buf[1] - 1,
                 IF buf[1] % 2 = 0 THEN 2 ELSE 1,
                 <<>>))

----------------------------------------------------------------------------
(* The catalog (model.TYPFile) and its parts.  A pointer to a bitmap is a  *)
(* sequence of at most one bitmap, <<>> being nil.                         *)

Color(r, g, b, a) == [R |-> r, G |-> g, B |-> b, Alpha |-> a]

\* model.Color{}: the zero value, for which IsZero() holds.
ZeroColor == Color(0, 0, 0, 0)

\* model.Header{} and model.NewTYPFile().
ZeroHeader == [Version |-> 0, CodePage |-> 0, FID |-> 0, PID |-> 0]
NewTYPFile ==
    [Header |-> ZeroHeader, Points |-> <<>>, Lines |-> <<>>, Polygons |-> <<>>]

\* model.PointType{Labels: make(map[string]string)}
ZeroPoint ==
    [Type |-> 0, SubType |-> 0, Labels |-> <<>>, DayIcon |-> <<>>,
     NightIcon |-> <<>>, FontStyle |-> "FontNormal",
     DayColor |-> ZeroColor, NightColor |-> ZeroColor]

\* model.LineType{...}.  NightIsDay records that NightPattern and
\* DayPattern are the same pointer.
ZeroLine ==
    [Type |-> 0, SubType |-> 0, Labels |-> <<>>, LineWidth |-> 0,
     BorderWidth |-> 0, DayColor |-> ZeroColor, NightColor |-> ZeroColor,
     DayBorderColor |-> ZeroColor, NightBorderColor |-> ZeroColor,
     DayPattern |-> <<>>, NightPattern |-> <<>>, NightIsDay |-> FALSE]

\* model.PolygonType{...}
ZeroPolygon ==
    [Type |-> 0, SubType |-> 0, Labels |-> <<>>,
     DayColor |-> ZeroColor, NightColor |-> ZeroColor,
     DayPattern |-> <<>>, NightPattern |-> <<>>, NightIsDay |-> FALSE]

\* &model.Bitmap{...}
Bitmap(width, height, mode, palette, data) ==
    [Width |-> width, Height |-> height, ColorMode |-> mode,
     Palette |-> palette, Data |-> data]

----------------------------------------------------------------------------
(* Binary reader.  Offsets are 0-based as in the code; buf[o] of the code  *)
(* is buf[o + 1] here.                                                     *)

\* buf[a:b]
Slice(buf, a, b) == SubSeq(buf, a + 1, b)

\* binary.LittleEndian.Uint16 / Uint32 of the bytes at offset o.
Uint16(buf, o) == buf[o + 1] + 256 * buf[o + 2]
Uint32(buf, o) ==
    buf[o + 1] + 256 * buf[o + 2] + 65536 * buf[o + 3] + 16777216 * buf[o + 4]

\* io.ReaderAt.ReadAt(buf, off) on the input file, for a buffer of `size`
\* bytes: n bytes are read, io.EOF is returned when n < size, and the rest
\* of the buffer keeps its zeros.
ReadAt(file, size, off) ==
    LET avail == IF off >= Len(file) THEN 0 ELSE Len(file) - off
        n     == IF avail < size THEN avail ELSE size
    IN  [n   |-> n,
         eof |-> n < size,
         buf |-> [i \in 1 .. size |-> IF i <= n THEN file[off + i] ELSE 0]]

\* buf = buf[:n] after a ReadAt into the record buffer.
ReadRecord(file, size, off) ==
    LET avail == IF off >= Len(file) THEN 0 ELSE Len(file) - off
        n     == IF avail < size THEN avail ELSE size
    IN  SubSeq(file, off + 1, off + n)

headerBufSize == 256
recordBufSize == 4096

\* "GARMIN TYP"
Signature == <<71, 65, 82, 77, 73, 78, 32, 84, 89, 80>>

SectionInfo(dataOffset, dataLength, arrayOffset, arrayModulo, arraySize) ==
    [DataOffset |-> dataOffset, DataLength |-> dataLength,
     ArrayOffset |-> arrayOffset, ArrayModulo |-> arrayModulo,
     ArraySize |-> arraySize]

\* r.typHeader before ReadHeader has run.
NoTYPHeader ==
    [Descriptor |-> 0, Version |-> 0, Year |-> 0, Month |-> 0, Day |-> 0,
     Hour |-> 0, Minutes |-> 0, Seconds |-> 0, CodePage |-> 0, PID |-> 0,
     FID |-> 0,
     Points    |-> SectionInfo(0, 0, 0, 0, 0),
     Polylines |-> SectionInfo(0, 0, 0, 0, 0),
     Polygons  |-> SectionInfo(0, 0, 0, 0, 0),
     Order     |-> SectionInfo(0, 0, 0, 0, 0)]

\* The fields ReadHeader takes from the 256-byte buffer.
HeaderFields(buf) ==
    [Descriptor |-> Uint16(buf, 0),
     Version    |-> Uint16(buf, 12),
     Year       |-> Uint16(buf, 14),
     Month      |-> buf[17], Day |-> buf[18], Hour |-> buf[19],
     Minutes    |-> buf[20], Seconds |-> buf[21],
     CodePage   |-> Uint16(buf, 21),
     PID        |-> Uint16(buf, 47),
     FID        |-> Uint16(buf, 49),
     Points     |-> SectionInfo(Uint32(buf, 23), Uint32(buf, 27),
                                Uint32(buf, 51), Uint16(buf, 55), Uint32(buf, 57)),
     Polylines  |-> SectionInfo(Uint32(buf, 31), Uint32(buf, 35),
                                Uint32(buf, 61), Uint16(buf, 65), Uint32(buf, 67)),
     Polygons   |-> SectionInfo(Uint32(buf, 39), Uint32(buf, 43),
                                Uint32(buf, 71), Uint16(buf, 75), Uint32(buf, 77)),
     Order      |-> SectionInfo(0, 0,
                                Uint32(buf, 81), Uint16(buf, 85), Uint32(buf, 87))]

\* The decoder switch at the end of ReadHeader.
HeaderDecoder(cp) ==
    IF cp = 1252 THEN "Windows1252"
    ELSE IF cp = 1250 THEN "Windows1250"
    ELSE IF cp = 65001 THEN "nil"
    ELSE "Windows1252"

\* ReadHeader with the signature comparison left out.
ReadHeaderUnsigned(file) ==
    LET hd == ReadAt(file, headerBufSize, 0)
        h  == HeaderFields(hd.buf)
    IN  IF hd.eof
        THEN [err |-> "read header bytes", typHeader |-> NoTYPHeader,
              decoder |-> "nil", header |-> ZeroHeader]
        ELSE [err       |-> "",
              typHeader |-> h,
              decoder   |-> HeaderDecoder(h.CodePage),
              header    |-> [Version |-> h.Version, CodePage |-> h.CodePage,
                             FID |-> h.FID, PID |-> h.PID]]

\* Reader.ReadHeader: the header, r.typHeader and r.decoder, or an error.
ReadHeader(file) ==
    LET hd == ReadAt(file, headerBufSize, 0)
        h  == HeaderFields(hd.buf)
    IN  IF hd.eof
        THEN [err |-> "read header bytes", typHeader |-> NoTYPHeader,
              decoder |-> "nil", header |-> ZeroHeader]
        ELSE IF Slice(hd.buf, 2, 12) # Signature
        THEN [err |-> "missing GARMIN TYP signature", typHeader |-> NoTYPHeader,
              decoder |-> "nil", header |-> ZeroHeader]
        ELSE [err       |-> "",
              typHeader |-> h,
              decoder   |-> HeaderDecoder(h.CodePage),
              header    |-> [Version |-> h.Version, CodePage |-> h.CodePage,
                             FID |-> h.FID, PID |-> h.PID]]

\* Reader.readArrayEntry: the 8-byte buffer tolerates io.EOF.
readArrayEntry(file, offset, modulo) ==
    LET buf == ReadAt(file, 8, offset).buf
    IN  IF modulo = 5
        THEN [err |-> "", typeCode |-> Uint16(buf, 0),
              dataOffset |-> buf[3] + 256 * buf[4] + 65536 * buf[5]]
        ELSE IF modulo = 4
        THEN [err |-> "", typeCode |-> Uint16(buf, 0), dataOffset |-> Uint16(buf, 2)]
        ELSE IF modulo = 3
        THEN [err |-> "", typeCode |-> Uint16(buf, 0), dataOffset |-> buf[3]]
        ELSE [err |-> "unsupported array modulo", typeCode |-> 0, dataOffset |-> 0]

\* model.Color{R: buf[pos+2], G: buf[pos+1], B: buf[pos], Alpha: 255}
BGR(buf, pos) == Color(buf[pos + 3], buf[pos + 2], buf[pos + 1], 255)

\* The transparent slot the line and polygon readers put in palette[0].
Transparent == Color(255, 255, 255, 0)

\* Reader.readColorTable
readColorTable(buf, pos, ncolors) ==
    IF pos + ncolors * 3 > Len(buf)
    THEN [err |-> TRUE, palette |-> <<>>, n |-> 0]
    ELSE [err     |-> FALSE,
          palette |-> [i \in 1 .. ncolors |-> BGR(buf, pos + (i - 1) * 3)],
          n       |-> ncolors * 3]

\* The ColorMode switch on bpp in readPointData.
IconColorMode(bpp) ==
    IF bpp = 1 THEN "Monochrome" ELSE IF bpp = 4 THEN "Color16" ELSE "Color256"


\* The label block of a record, "if hasLabels && pos < len(buf)": an error
\* of readLabels is ignored and nothing is consumed.
ReadRecordLabels(cm, buf, pos, hasLabels) ==
    LET At(l) == IF l.err THEN [labels |-> <<>>, pos |-> pos]
                 ELSE [labels |-> l.labels, pos |-> pos + l.n]
    IN  IF hasLabels /\ pos < Len(buf)
        THEN At(readLabels(cm, Slice(buf, pos, Len(buf))))
        ELSE [labels |-> <<>>, pos |-> pos]

\* readPointData, the text colour block applied to the point pt; the
\* result is the result of readPointData.
ReadTextColors(buf, pos, hasTextColors, pt) ==
    IF ~(hasTextColors /\ pos < Len(buf)) THEN [err |-> "", rec |-> pt]
    ELSE LET textColorFlags == buf[pos + 1]
             labelType == textColorFlags % 8
             fontStyle == IF labelType = 0 THEN "FontNormal"
                          ELSE IF labelType = 1 THEN "FontNoLabel"
                          ELSE IF labelType = 2 THEN "FontSmall"
                          ELSE IF labelType = 3 THEN "FontNormal"
                          ELSE IF labelType = 4 THEN "FontLarge"
                          ELSE pt.FontStyle
             hasDay    == (textColorFlags \div 8) % 2 = 1
             hasNight  == (textColorFlags \div 16) % 2 = 1
             pos1      == pos + 1
             pos2      == IF hasDay THEN pos1 + 3 ELSE pos1
         IN  IF hasDay /\ pos1 + 3 > Len(buf)
             THEN [err |-> "buffer too small for day text color", rec |-> ZeroPoint]
             ELSE IF hasNight /\ pos2 + 3 > Len(buf)
             THEN [err |-> "buffer too small for night text color", rec |-> ZeroPoint]
             ELSE [err |-> "",
                   rec |-> [pt EXCEPT
                              !.FontStyle  = fontStyle,
                              !.DayColor   = IF hasDay THEN BGR(buf, pos1) ELSE @,
                              !.NightColor = IF hasNight THEN BGR(buf, pos2) ELSE @]]

\* readPointData, the night block read at pos when dayNightMode is 3:
\* ncolors, ctype, colour table, then a bitmap of the day icon's size
\* (buf[1] x buf[2]).
ReadNightIcon(buf, pos) ==
    LET Fail(msg) == [err |-> msg, icon |-> <<>>, pos |-> pos]
        hasIcon   == buf[2] > 0 /\ buf[3] > 0
        Pixels(pal, bm) ==
            IF bm.err THEN Fail("read night bitmap")
            ELSE [err  |-> "",
                  icon |-> IF hasIcon
                           THEN <<Bitmap(buf[2], buf[3],
                                         IconColorMode(calculateBPP(buf[pos + 1])),
                                         pal.palette, bm.data)>>
                           ELSE <<>>,
                  pos  |-> pos + 2 + pal.n + bm.n]
        Table(pal) ==
            IF pal.err THEN Fail("read night color table")
            ELSE Pixels(pal, IF hasIcon
                             THEN readBitmap(buf, pos + 2 + pal.n, buf[2], buf[3],
                                             calculateBPP(buf[pos + 1]))
                             ELSE [err |-> FALSE, data |-> <<>>, n |-> 0])
    IN  IF pos + 2 > Len(buf) THEN Fail("buffer too small for night bitmap header")
        ELSE Table(IF buf[pos + 1] > 0
                   THEN readColorTable(buf, pos + 2, buf[pos + 1])
                   ELSE [err |-> FALSE, palette |-> <<>>, n |-> 0])

\* Reader.readPointData: one point record read at `offset` of the file.
\* flags, width, height, ncolors and ctype are buf[0..4]; flags hold the
\* day/night mode (bits 0-1), the label flag (0x04) and the text colour
\* flag (0x08).  Each step takes what the step before it returned.
readPointData(cm, file, offset, typ, subtyp) ==
    LET Fail(msg) == [err |-> msg, rec |-> ZeroPoint]
        Labels(buf, pt, lab) ==
            ReadTextColors(buf, lab.pos, (buf[1] \div 8) % 2 = 1,
                           [pt EXCEPT !.Labels = lab.labels])
        Night(buf, pt, night) ==
            IF night.err # "" THEN Fail(night.err)
            ELSE Labels(buf, [pt EXCEPT !.NightIcon = night.icon],
                        ReadRecordLabels(cm, buf, night.pos, (buf[1] \div 4) % 2 = 1))
        Pixels(buf, pt, pal, bm) ==
            IF bm.err THEN Fail("read bitmap")
            ELSE Night(buf,
                       [pt EXCEPT !.DayIcon =
                           IF buf[2] > 0 /\ buf[3] > 0
                           THEN <<Bitmap(buf[2], buf[3],
                                         IconColorMode(calculateBPP(buf[4])),
                                         pal.palette, bm.data)>>
                           ELSE <<>>],
                       IF buf[1] % 4 = 3 THEN ReadNightIcon(buf, 5 + pal.n + bm.n)
                       ELSE [err |-> "", icon |-> <<>>, pos |-> 5 + pal.n + bm.n])
        Table(buf, pt, pal) ==
            IF pal.err THEN Fail("read color table")
            ELSE Pixels(buf, pt, pal,
                        IF buf[2] > 0 /\ buf[3] > 0
                        THEN readBitmap(buf, 5 + pal.n, buf[2], buf[3],
                                        calculateBPP(buf[4]))
                        ELSE [err |-> FALSE, data |-> <<>>, n |-> 0])
        Record(buf) ==
            IF Len(buf) < 5 THEN Fail("buffer too small")
            ELSE Table(buf, [ZeroPoint EXCEPT !.Type = typ, !.SubType = subtyp],
                       IF buf[4] > 0 THEN readColorTable(buf, 5, buf[4])
                       ELSE [err |-> FALSE, palette |-> <<>>, n |-> 0])
    IN  Record(ReadRecord(file, recordBufSize, offset))

\* The 32 x rows, 1 bpp pattern of a line or polygon record.
Pattern(rows, palette, data) == Bitmap(32, rows, "Monochrome", palette, data)

LineColorTypes == {0, 1, 3, 5, 6, 7}

\* readPolylineData, rows > 0: the number of colour bytes in front of the
\* bitmap, per colour type.
LinePatternBytes(ctyp) ==
    IF ctyp = 0 THEN 6
    ELSE IF ctyp = 1 THEN 12
    ELSE IF ctyp \in {3, 5} THEN 9
    ELSE IF ctyp = 6 THEN 3
    ELSE 6

\* readPolylineData, rows > 0: the two palettes <<palette[0], palette[1]>>
\* built from the colour bytes, and whether day and night share a bitmap.
LinePatternColors(buf, pos, ctyp) ==
    IF ctyp = 0 THEN [shared |-> TRUE,
                      day   |-> <<BGR(buf, pos + 3), BGR(buf, pos)>>,
                      night |-> <<BGR(buf, pos + 3), BGR(buf, pos)>>]
    ELSE IF ctyp = 1 THEN [shared |-> FALSE,
                      day   |-> <<BGR(buf, pos + 3), BGR(buf, pos)>>,
                      night |-> <<BGR(buf, pos + 9), BGR(buf, pos + 6)>>]
    ELSE IF ctyp = 3 THEN [shared |-> FALSE,
                      day   |-> <<Transparent, BGR(buf, pos)>>,
                      night |-> <<BGR(buf, pos + 6), BGR(buf, pos + 3)>>]
    ELSE IF ctyp = 5 THEN [shared |-> FALSE,
                      day   |-> <<BGR(buf, pos + 3), BGR(buf, pos)>>,
                      night |-> <<Transparent, BGR(buf, pos + 6)>>]
    ELSE IF ctyp = 6 THEN [shared |-> TRUE,
                      day   |-> <<Transparent, BGR(buf, pos)>>,
                      night |-> <<Transparent, BGR(buf, pos)>>]
    ELSE [shared |-> FALSE,
                      day   |-> <<Transparent, BGR(buf, pos)>>,
                      night |-> <<Transparent, BGR(buf, pos + 3)>>]

\* readPolylineData, rows = 0: the bytes the bounds check asks for, per
\* colour type.  They are the bytes consumed, except for colour type 3,
\* which consumes 11.
LineSolidNeed(ctyp) ==
    IF ctyp = 0 THEN 8
    ELSE IF ctyp = 1 THEN 14
    ELSE IF ctyp = 3 THEN 13
    ELSE IF ctyp = 5 THEN 10
    ELSE IF ctyp = 6 THEN 4
    ELSE 7

\* readPolylineData, rows = 0: the colours and widths stored in lt.
LineSolidColors(buf, pos, ctyp, lt) ==
    IF ctyp = 0 THEN
        [lt EXCEPT !.DayColor = BGR(buf, pos),
                   !.DayBorderColor = BGR(buf, pos + 3),
                   !.LineWidth = buf[pos + 7], !.BorderWidth = buf[pos + 8],
                   !.NightColor = BGR(buf, pos),
                   !.NightBorderColor = BGR(buf, pos + 3)]
    ELSE IF ctyp = 1 THEN
        [lt EXCEPT !.DayColor = BGR(buf, pos),
                   !.DayBorderColor = BGR(buf, pos + 3),
                   !.NightColor = BGR(buf, pos + 6),
                   !.NightBorderColor = BGR(buf, pos + 9),
                   !.LineWidth = buf[pos + 13], !.BorderWidth = buf[pos + 14]]
    ELSE IF ctyp = 3 THEN
        [lt EXCEPT !.DayColor = BGR(buf, pos),
                   !.NightColor = BGR(buf, pos + 3),
                   !.NightBorderColor = BGR(buf, pos + 6),
                   !.LineWidth = buf[pos + 10], !.BorderWidth = buf[pos + 11]]
    ELSE IF ctyp = 5 THEN
        [lt EXCEPT !.DayColor = BGR(buf, pos),
                   !.DayBorderColor = BGR(buf, pos + 3),
                   !.NightColor = BGR(buf, pos + 6),
                   !.LineWidth = buf[pos + 10]]
    ELSE IF ctyp = 6 THEN
        [lt EXCEPT !.DayColor = BGR(buf, pos),
                   !.LineWidth = buf[pos + 4],
                   !.NightColor = BGR(buf, pos),
                   !.BorderWidth = 0]
    ELSE
        [lt EXCEPT !.DayColor = BGR(buf, pos),
                   !.NightColor = BGR(buf, pos + 3),
                   !.LineWidth = buf[pos + 7],
                   !.BorderWidth = 0]

\* Reader.readPolylineData: one line record read at `offset` of the file.
\* buf[0] holds the colour type (bits 0-2) and the pattern rows (bits 3-7),
\* buf[1] the flags (0x01 labels).  bm is the pattern bitmap, read when
\* rows > 0; the label block follows what was consumed.
readPolylineData(cm, file, offset, typ, subtyp) ==
    LET Fail(msg) == [err |-> msg, rec |-> ZeroLine]
        Labels(lt, lab) == [err |-> "", rec |-> [lt EXCEPT !.Labels = lab.labels]]
        Patterns(lt, rows, pal, data) ==
            [lt EXCEPT !.DayPattern   = <<Pattern(rows, pal.day, data)>>,
                       !.NightPattern = <<Pattern(rows, pal.night, data)>>,
                       !.NightIsDay   = pal.shared]
        Body(buf, lt, ctyp, rows, bm) ==
            IF bm.err THEN Fail("read pattern bitmap")
            ELSE Labels(IF rows > 0
                        THEN Patterns(lt, rows, LinePatternColors(buf, 2, ctyp), bm.data)
                        ELSE LineSolidColors(buf, 2, ctyp, lt),
                        ReadRecordLabels(cm, buf,
                                         IF rows > 0
                                         THEN 2 + LinePatternBytes(ctyp) + bm.n
                                         ELSE 2 + (IF ctyp = 3 THEN 11 ELSE LineSolidNeed(ctyp)),
                                         buf[2] % 2 = 1))
        Colors(buf, lt, ctyp, rows) ==
            IF ctyp \notin LineColorTypes THEN Fail("unsupported polyline color type")
            ELSE IF rows > 0 /\ 2 + LinePatternBytes(ctyp) > Len(buf)
            THEN Fail("buffer too small for pattern colors")
            ELSE IF rows = 0 /\ 2 + LineSolidNeed(ctyp) > Len(buf)
            THEN Fail("buffer too small for colors")
            ELSE Body(buf, lt, ctyp, rows,
                      IF rows > 0
                      THEN readBitmap(buf, 2 + LinePatternBytes(ctyp), 32, rows, 1)
                      ELSE [err |-> FALSE, data |-> <<>>, n |-> 0])
        Record(buf) ==
            IF Len(buf) < 2 THEN Fail("buffer too small")
            ELSE Colors(buf, [ZeroLine EXCEPT !.Type = typ, !.SubType = subtyp],
                        buf[1] % 8, buf[1] \div 8)
    IN  Record(ReadRecord(file, recordBufSize, offset))

PolygonColorTypes == {1, 6, 7, 8, 9, 11, 13, 14}

\* readPolygonData: the colour types that carry a 32 x 32 pattern.
PolygonPatternTypes == {8, 9, 11, 13, 14}

\* readPolygonData: the number of colour bytes per colour type.
PolygonColorBytes(ctyp) ==
    IF ctyp \in {1, 9} THEN 12
    ELSE IF ctyp \in {7, 8} THEN 6
    ELSE IF ctyp \in {11, 13} THEN 9
    ELSE 3

\* readPolygonData, colour types without a pattern: the colours stored.
PolygonSolidColors(buf, pos, ctyp, poly) ==
    IF ctyp = 6
    THEN [poly EXCEPT !.DayColor = BGR(buf, pos), !.NightColor = BGR(buf, pos)]
    ELSE [poly EXCEPT !.DayColor = BGR(buf, pos), !.NightColor = BGR(buf, pos + 3)]

\* readPolygonData, colour types with a pattern: the two palettes
\* <<palette[0], palette[1]>> and whether day and night share a bitmap.
PolygonPatternColors(buf, pos, ctyp) ==
    IF ctyp = 8 THEN [shared |-> TRUE,
                      day   |-> <<BGR(buf, pos + 3), BGR(buf, pos)>>,
                      night |-> <<BGR(buf, pos + 3), BGR(buf, pos)>>]
    ELSE IF ctyp = 9 THEN [shared |-> FALSE,
                      day   |-> <<BGR(buf, pos + 3), BGR(buf, pos)>>,
                      night |-> <<BGR(buf, pos + 9), BGR(buf, pos + 6)>>]
    ELSE IF ctyp = 11 THEN [shared |-> FALSE,
                      day   |-> <<Transparent, BGR(buf, pos)>>,
                      night |-> <<BGR(buf, pos + 6), BGR(buf, pos + 3)>>]
    ELSE IF ctyp = 13 THEN [shared |-> FALSE,
                      day   |-> <<BGR(buf, pos + 3), BGR(buf, pos)>>,
                      night |-> <<Transparent, BGR(buf, pos + 6)>>]
    ELSE [shared |-> TRUE,
                      day   |-> <<Transparent, BGR(buf, pos)>>,
                      night |-> <<Transparent, BGR(buf, pos)>>]

\* Reader.readPolygonData: one polygon record read at `offset` of the file.
\* buf[0] holds the colour type (bits 0-3) and the label flag (0x10).  bm
\* is the 32 x 32 pattern bitmap of the colour types that carry one; the
\* label block follows what was consumed.
readPolygonData(cm, file, offset, typ, subtyp) ==
    LET Fail(msg) == [err |-> msg, rec |-> ZeroPolygon]
        Labels(poly, lab) == [err |-> "", rec |-> [poly EXCEPT !.Labels = lab.labels]]
        Patterns(poly, pal, data) ==
            [poly EXCEPT !.DayPattern   = <<Pattern(32, pal.day, data)>>,
                         !.NightPattern = <<Pattern(32, pal.night, data)>>,
                         !.NightIsDay   = pal.shared]
        Body(buf, poly, ctyp, bm) ==
            IF bm.err THEN Fail("read pattern")
            ELSE Labels(IF ctyp \in PolygonPatternTypes
                        THEN Patterns(poly, PolygonPatternColors(buf, 1, ctyp), bm.data)
                        ELSE PolygonSolidColors(buf, 1, ctyp, poly),
                        ReadRecordLabels(cm, buf, 1 + PolygonColorBytes(ctyp) + bm.n,
                                         (buf[1] \div 16) % 2 = 1))
        Colors(buf, poly, ctyp) ==
            IF ctyp \notin PolygonColorTypes THEN Fail("unsupported polygon color type")
            ELSE IF 1 + PolygonColorBytes(ctyp) > Len(buf)
            THEN Fail("buffer too small for colors")
            ELSE Body(buf, poly, ctyp,
                      IF ctyp \in PolygonPatternTypes
                      THEN readBitmap(buf, 1 + PolygonColorBytes(ctyp), 32, 32, 1)
                      ELSE [err |-> FALSE, data |-> <<>>, n |-> 0])
        Record(buf) ==
            IF Len(buf) < 1 THEN Fail("buffer too small")
            ELSE Colors(buf, [ZeroPolygon EXCEPT !.Type = typ, !.SubType = subtyp],
                        buf[1] % 16)
    IN  Record(ReadRecord(file, recordBufSize, offset))

----------------------------------------------------------------------------
(* Binary writer.  The iteration order of a label map is an input of the   *)
(* operators that range over it.                                           *)

\* binary.LittleEndian.PutUint16 / PutUint32
PutUint16(v) == <<v % 256, (v \div 256) % 256>>
PutUint32(v) ==
    <<v % 256, (v \div 256) % 256, (v \div 65536) % 256, (v \div 16777216) % 256>>

headerSize == 91

\* writeHeader with the lines and polygons data fields in each other's
\* place.
writeHeaderSwapped(header, info, now) ==
    LET version  == IF header.Version > 0 THEN U16(header.Version) ELSE 1
        cp       == IF header.CodePage = 0 THEN 1252 ELSE header.CodePage
    IN  PutUint16(headerSize) \o Signature \o PutUint16(version)
        \o PutUint16(U16(now.Year - 1900))
        \o <<U8(now.Month - 1), U8(now.Day), U8(now.Hour), U8(now.Minute),
             U8(now.Second)>>
        \o PutUint16(U16(cp))
        \o PutUint32(info.pointsDataOffset) \o PutUint32(info.pointsDataSize)
        \o PutUint32(info.polygonsDataOffset) \o PutUint32(info.polygonsDataSize)
        \o PutUint32(info.polylinesDataOffset) \o PutUint32(info.polylinesDataSize)
        \o PutUint16(U16(header.PID)) \o PutUint16(U16(header.FID))
        \o PutUint32(info.pointsArrayOffset) \o PutUint16(info.pointsArrayModulo)
        \o PutUint32(info.pointsArraySize)
        \o PutUint32(info.polylinesArrayOffset) \o PutUint16(info.polylinesArrayModulo)
        \o PutUint32(info.polylinesArraySize)
        \o PutUint32(info.polygonsArrayOffset) \o PutUint16(info.polygonsArrayModulo)
        \o PutUint32(info.polygonsArraySize)
        \o PutUint32(info.orderArrayOffset) \o PutUint16(info.orderArrayModulo)
        \o PutUint32(info.orderArraySize)

\* Writer.writeHeader: the 0x5B header bytes; now is time.Now().
writeHeader(header, info, now) ==
    LET version  == IF header.Version > 0 THEN U16(header.Version) ELSE 1
        cp       == IF header.CodePage = 0 THEN 1252 ELSE header.CodePage
    IN  PutUint16(headerSize) \o Signature \o PutUint16(version)
        \o PutUint16(U16(now.Year - 1900))
        \o <<U8(now.Month - 1), U8(now.Day), U8(now.Hour), U8(now.Minute),
             U8(now.Second)>>
        \o PutUint16(U16(cp))
        \o PutUint32(info.pointsDataOffset) \o PutUint32(info.pointsDataSize)
        \o PutUint32(info.polylinesDataOffset) \o PutUint32(info.polylinesDataSize)
        \o PutUint32(info.polygonsDataOffset) \o PutUint32(info.polygonsDataSize)
        \o PutUint16(U16(header.PID)) \o PutUint16(U16(header.FID))
        \o PutUint32(info.pointsArrayOffset) \o PutUint16(info.pointsArrayModulo)
        \o PutUint32(info.pointsArraySize)
        \o PutUint32(info.polylinesArrayOffset) \o PutUint16(info.polylinesArrayModulo)
        \o PutUint32(info.polylinesArraySize)
        \o PutUint32(info.polygonsArrayOffset) \o PutUint16(info.polygonsArrayModulo)
        \o PutUint32(info.polygonsArraySize)
        \o PutUint32(info.orderArrayOffset) \o PutUint16(info.orderArrayModulo)
        \o PutUint32(info.orderArraySize)

\* Writer.writeColorTable: B, G, R for each palette entry.
RECURSIVE writeColorTable(_)
writeColorTable(palette) ==
    IF palette = <<>> THEN <<>>
    ELSE <<palette[1].B, palette[1].G, palette[1].R>> \o writeColorTable(Tail(palette))

\* Writer.writeArrayEntry: type code and a two-byte offset.
writeArrayEntry(typeCode, dataOffset) ==
    PutUint16(typeCode) \o PutUint16(U16(dataOffset))

\* The label block of a record, or nothing when the map is empty.
WriteRecordLabels(cm, lm, order) ==
    LET Block(l) == [err |-> l.err, bytes |-> l.bytes]
    IN  IF DOMAIN lm = {} THEN [err |-> FALSE, bytes |-> <<>>]
        ELSE Block(writeLabels(cm, lm, order))

\* Writer.writePointData: the bytes of one point record.
writePointData(cm, pt, order) ==
    LET hasDay   == pt.DayIcon # <<>>
        hasNight == pt.NightIcon # <<>>
        dayNightMode == IF hasDay /\ hasNight THEN 3
                        ELSE IF hasNight THEN 2
                        ELSE IF hasDay THEN 1 ELSE 0
        flags   == BitOr(dayNightMode, IF DOMAIN pt.Labels # {} THEN 4 ELSE 0)
        width   == IF hasDay THEN U8(pt.DayIcon[1].Width) ELSE 0
        height  == IF hasDay THEN U8(pt.DayIcon[1].Height) ELSE 0
        ncolors == IF hasDay THEN U8(Len(pt.DayIcon[1].Palette)) ELSE 0
        ctype   == IF hasDay THEN 16 ELSE 0
        dayTable == IF hasDay THEN writeColorTable(pt.DayIcon[1].Palette) ELSE <<>>
        nightHead  == IF dayNightMode = 3
                      THEN <<U8(Len(pt.NightIcon[1].Palette)), 16>>
                           \o writeColorTable(pt.NightIcon[1].Palette)
                      ELSE <<>>
        Record(dayBits, nightBits, lab) ==
            IF dayBits.err \/ nightBits.err \/ lab.err
            THEN [err |-> TRUE, bytes |-> <<>>]
            ELSE [err   |-> FALSE,
                  bytes |-> <<flags, width, height, ncolors, ctype>> \o dayTable
                            \o dayBits.bytes \o nightHead \o nightBits.bytes
                            \o lab.bytes]
    IN  Record(IF hasDay
               THEN writeBitmap(pt.DayIcon[1].Data, width, height,
                                calculateBPP(Len(pt.DayIcon[1].Palette)))
               ELSE [err |-> FALSE, bytes |-> <<>>],
               IF dayNightMode = 3
               THEN writeBitmap(pt.NightIcon[1].Data,
                                U8(pt.NightIcon[1].Width),
                                U8(pt.NightIcon[1].Height),
                                calculateBPP(Len(pt.NightIcon[1].Palette)))
               ELSE [err |-> FALSE, bytes |-> <<>>],
               WriteRecordLabels(cm, pt.Labels, order))

\* Writer.palettesEqual
palettesEqual(p1, p2) == p1 = p2

\* Writer.determineLineColorType
determineLineColorType(lt) ==
    LET hasDayPattern   == lt.DayPattern # <<>>
        hasNightPattern == lt.NightPattern # <<>>
        dayTransparent   == /\ Len(lt.DayPattern[1].Palette) > 0
                            /\ lt.DayPattern[1].Palette[1].Alpha = 0
        nightTransparent == /\ Len(lt.NightPattern[1].Palette) > 0
                            /\ lt.NightPattern[1].Palette[1].Alpha = 0
    IN  IF ~hasDayPattern /\ ~hasNightPattern
        THEN (IF /\ lt.DayColor = lt.NightColor
                 /\ lt.DayBorderColor = lt.NightBorderColor
              THEN 0 ELSE 1)
        ELSE IF hasDayPattern /\ ~hasNightPattern THEN 0
        ELSE IF ~hasDayPattern /\ hasNightPattern THEN 0
        ELSE IF dayTransparent /\ nightTransparent THEN 7
        ELSE IF dayTransparent THEN 3
        ELSE IF nightTransparent THEN 4
        ELSE IF palettesEqual(lt.DayPattern[1].Palette, lt.NightPattern[1].Palette)
        THEN 0
        ELSE 1

\* B, G, R of one colour.
PutBGR(c) == <<c.B, c.G, c.R>>

\* palette[1] then palette[0] of a two-colour pattern, each as B, G, R.
PutPalette(bm) == PutBGR(bm.Palette[2]) \o PutBGR(bm.Palette[1])

\* The test "pattern == nil || len(pattern.Palette) < 2".
BadPattern(ptr) == ptr = <<>> \/ Len(ptr[1].Palette) < 2

\* Writer.writeLineColorData
writeLineColorData(lt, ctyp, rows) ==
    LET Bits   == writeBitmap(lt.DayPattern[1].Data, 32, U8(rows), 1)
        Fail   == [err |-> TRUE, bytes |-> <<>>]
        Ok(bs) == [err |-> FALSE, bytes |-> bs]
    IN  IF ctyp = 0 THEN
            IF rows > 0
            THEN IF BadPattern(lt.DayPattern) THEN Fail
                 ELSE IF Bits.err THEN Fail
                 ELSE Ok(PutPalette(lt.DayPattern[1]) \o Bits.bytes)
            ELSE Ok(PutBGR(lt.DayColor) \o PutBGR(lt.DayBorderColor)
                    \o <<U8(lt.LineWidth), U8(lt.BorderWidth)>>)
        ELSE IF ctyp = 1 THEN
            IF rows > 0
            THEN IF BadPattern(lt.DayPattern) \/ BadPattern(lt.NightPattern) THEN Fail
                 ELSE IF Bits.err THEN Fail
                 ELSE Ok(PutPalette(lt.DayPattern[1]) \o PutPalette(lt.NightPattern[1])
                         \o Bits.bytes)
            ELSE Ok(PutBGR(lt.DayColor) \o PutBGR(lt.DayBorderColor)
                    \o PutBGR(lt.NightColor) \o PutBGR(lt.NightBorderColor)
                    \o <<U8(lt.LineWidth), U8(lt.BorderWidth)>>)
        ELSE IF ctyp = 3 THEN
            IF rows > 0
            THEN IF BadPattern(lt.DayPattern) \/ BadPattern(lt.NightPattern) THEN Fail
                 ELSE IF Bits.err THEN Fail
                 ELSE Ok(PutBGR(lt.DayPattern[1].Palette[2])
                         \o PutPalette(lt.NightPattern[1]) \o Bits.bytes)
            ELSE Ok(<<>>)
        ELSE Ok(<<>>)

\* Writer.writeLineData: the bytes of one line record.
writeLineData(cm, lt, order) ==
    LET ctyp     == determineLineColorType(lt)
        rows     == IF lt.DayPattern # <<>> THEN lt.DayPattern[1].Height ELSE 0
        ctypRows == U8(BitOr(ctyp, Shl(rows, 3)))
        flags    == IF DOMAIN lt.Labels # {} THEN 1 ELSE 0
        Record(colors, lab) ==
            IF colors.err \/ lab.err THEN [err |-> TRUE, bytes |-> <<>>]
            ELSE [err |-> FALSE,
                  bytes |-> <<ctypRows, flags>> \o colors.bytes \o lab.bytes]
    IN  Record(writeLineColorData(lt, ctyp, rows),
               WriteRecordLabels(cm, lt.Labels, order))

\* Writer.determinePolygonColorType
determinePolygonColorType(poly) ==
    LET hasDayPattern   == poly.DayPattern # <<>>
        hasNightPattern == poly.NightPattern # <<>>
    IN  IF ~hasDayPattern /\ ~hasNightPattern
        THEN (IF poly.DayColor = poly.NightColor THEN 6 ELSE 7)
        ELSE IF hasDayPattern /\ ~hasNightPattern THEN 8
        ELSE IF ~hasDayPattern /\ hasNightPattern THEN 8
        ELSE IF palettesEqual(poly.DayPattern[1].Palette, poly.NightPattern[1].Palette)
        THEN 8
        ELSE 9

\* Writer.writePolygonColorData
writePolygonColorData(poly, ctyp) ==
    LET Bits   == writeBitmap(poly.DayPattern[1].Data, 32, 32, 1)
        Fail   == [err |-> TRUE, bytes |-> <<>>]
        Ok(bs) == [err |-> FALSE, bytes |-> bs]
    IN  IF ctyp = 6 THEN Ok(PutBGR(poly.DayColor))
        ELSE IF ctyp = 7 THEN Ok(PutBGR(poly.DayColor) \o PutBGR(poly.NightColor))
        ELSE IF ctyp = 8 THEN
            IF BadPattern(poly.DayPattern) THEN Fail
            ELSE IF Bits.err THEN Fail
            ELSE Ok(PutPalette(poly.DayPattern[1]) \o Bits.bytes)
        ELSE IF ctyp = 9 THEN
            IF BadPattern(poly.DayPattern) \/ BadPattern(poly.NightPattern) THEN Fail
            ELSE IF Bits.err THEN Fail
            ELSE Ok(PutPalette(poly.DayPattern[1]) \o PutPalette(poly.NightPattern[1])
                    \o Bits.bytes)
        ELSE Ok(<<>>)

\* Writer.writePolygonData: the bytes of one polygon record.
writePolygonData(cm, poly, order) ==
    LET ctyp   == determinePolygonColorType(poly)
        flags  == BitOr(U8(ctyp), IF DOMAIN poly.Labels # {} THEN 16 ELSE 0)
        Record(colors, lab) ==
            IF colors.err \/ lab.err THEN [err |-> TRUE, bytes |-> <<>>]
            ELSE [err |-> FALSE, bytes |-> <<flags>> \o colors.bytes \o lab.bytes]
    IN  Record(writePolygonColorData(poly, ctyp),
               WriteRecordLabels(cm, poly.Labels, order))

\* The loop of writePointTypes taken from the last feature to the first.
RECURSIVE WriteTypesBackwards(_, _, _, _)
WriteTypesBackwards(recs, written, i, bufs) ==
    LET k == Len(recs) + 1 - i
    IN  IF i > Len(recs) THEN bufs
        ELSE IF written[k].err THEN [bufs EXCEPT !.err = TRUE]
        ELSE WriteTypesBackwards(recs, written, i + 1,
                    [err   |-> FALSE,
                     array |-> bufs.array
                               \o writeArrayEntry(
                                      encodeTypeSubtype(recs[k].Type, recs[k].SubType),
                                      Len(bufs.data)),
                     data  |-> bufs.data \o written[k].bytes])

\* writePointTypes, writeLineTypes and writePolygonTypes: the loop that
\* appends each record to the data buffer and its entry to the index
\* array.  written[i] is what the section's record writer returned for
\* recs[i]; the first error ends the loop.
RECURSIVE WriteTypes(_, _, _, _)
WriteTypes(recs, written, i, bufs) ==
    IF i > Len(recs) THEN bufs
    ELSE IF written[i].err THEN [bufs EXCEPT !.err = TRUE]
    ELSE WriteTypes(recs, written, i + 1,
                    [err   |-> FALSE,
                     array |-> bufs.array
                               \o writeArrayEntry(
                                      encodeTypeSubtype(recs[i].Type, recs[i].SubType),
                                      Len(bufs.data)),
                     data  |-> bufs.data \o written[i].bytes])

\* The first half of Writer.Write: the encoder is set up and the index
\* array and data buffer of each section are filled.  orders gives the
\* label iteration order of every feature.
WriteSections(t, orders) ==
    LET cm    == setupEncoder(t.Header.CodePage)
        empty == [err |-> FALSE, array |-> <<>>, data |-> <<>>]
    IN  [points    |-> WriteTypes(t.Points,
                           [i \in 1 .. Len(t.Points) |->
                               writePointData(cm, t.Points[i], orders.Points[i])],
                           1, empty),
         polylines |-> WriteTypes(t.Lines,
                           [i \in 1 .. Len(t.Lines) |->
                               writeLineData(cm, t.Lines[i], orders.Lines[i])],
                           1, empty),
         polygons  |-> WriteTypes(t.Polygons,
                           [i \in 1 .. Len(t.Polygons) |->
                               writePolygonData(cm, t.Polygons[i],
                                                orders.Polygons[i])],
                           1, empty)]

\* Writer.Write: the bytes of the binary file, or an error.
Write(t, now, orders) ==
    LET orderArray == <<>>
        Modulo(size) == IF size > 65535 THEN 5 ELSE 4
        File(points, polylines, polygons) ==
            LET pointsArrayOffset    == headerSize
                polylinesArrayOffset == pointsArrayOffset + Len(points.array)
                polygonsArrayOffset  == polylinesArrayOffset + Len(polylines.array)
                orderArrayOffset     == polygonsArrayOffset + Len(polygons.array)
                pointsDataOffset     == orderArrayOffset + Len(orderArray)
                polylinesDataOffset  == pointsDataOffset + Len(points.data)
                polygonsDataOffset   == polylinesDataOffset + Len(polylines.data)
            IN  IF points.err \/ polylines.err \/ polygons.err
                THEN [err |-> TRUE, bytes |-> <<>>]
                ELSE [err   |-> FALSE,
                      bytes |->
                        writeHeader(t.Header,
                            [pointsDataOffset     |-> pointsDataOffset,
                             pointsDataSize       |-> Len(points.data),
                             polylinesDataOffset  |-> polylinesDataOffset,
                             polylinesDataSize    |-> Len(polylines.data),
                             polygonsDataOffset   |-> polygonsDataOffset,
                             polygonsDataSize     |-> Len(polygons.data),
                             pointsArrayOffset    |-> pointsArrayOffset,
                             pointsArrayModulo    |-> Modulo(Len(points.data)),
                             pointsArraySize      |-> Len(points.array),
                             polylinesArrayOffset |-> polylinesArrayOffset,
                             polylinesArrayModulo |-> Modulo(Len(polylines.data)),
                             polylinesArraySize   |-> Len(polylines.array),
                             polygonsArrayOffset  |-> polygonsArrayOffset,
                             polygonsArrayModulo  |-> Modulo(Len(polygons.data)),
                             polygonsArraySize    |-> Len(polygons.array),
                             orderArrayOffset     |-> orderArrayOffset,
                             orderArrayModulo     |-> 3,
                             orderArraySize       |-> Len(orderArray)],
                            now)
                        \o points.array \o polylines.array \o polygons.array
                        \o orderArray
                        \o points.data \o polylines.data \o polygons.data]
        Emit(s) == File(s.points, s.polylines, s.polygons)
    IN  Emit(WriteSections(t, orders))

----------------------------------------------------------------------------
(* The mkgmap text format.  A text file is the sequence of its lines.  A   *)
(* line "key=value" is [key, value], value being a string; a line without *)
(* "=" has its whole text as key ("[_point]", "[end]", "" for an empty     *)
(* line); a line in double quotes has the key "\"" and the quoted          *)
(* characters as value.  No value holds a line feed.                       *)

Line(key, value) == [key |-> key, value |-> value]

\* fmt's %d (base 10) and %x (base 16) of a non-negative integer.
RECURSIVE FormatInt(_, _)
FormatInt(v, base) ==
    IF v < base THEN <<HexDigits[v + 1]>>
    ELSE FormatInt(v \div base, base) \o <<HexDigits[(v % base) + 1]>>

\* fmt.Sprintf("#%02x%02x%02x", c.R, c.G, c.B)
ColorText(c) == <<35>> \o Sprintf02x(c.R) \o Sprintf02x(c.G) \o Sprintf02x(c.B)

\* Writer.writeXPM: the tag line, one line per palette entry, one line per
\* pixel row.  chars are the 93 printable characters from '!' to '~'
\* without the double quote; above 93 colours a code is two of them.
writeXPM(bitmap, tag) ==
    LET n        == Len(bitmap.Palette)
        cpp      == IF n > 93 THEN 2 ELSE 1
        codes    == IF cpp = 2 THEN 255 ELSE 93
        chars(i) == IF i = 0 THEN 33 ELSE i + 34
        Code(i)  == IF cpp = 2 THEN <<chars(i \div 93), chars(i % 93)>>
                    ELSE <<chars(i)>>
        header   ==
            Line(tag, <<34>> \o FormatInt(bitmap.Width, 10) \o <<32>>
                      \o FormatInt(bitmap.Height, 10) \o <<32>>
                      \o FormatInt(n, 10) \o <<32>> \o FormatInt(cpp, 10)
                      \o <<34>>)
        colorStr(c) == IF c.Alpha = 0 /\ c.R = 0 /\ c.G = 0 /\ c.B = 0
                       THEN <<110, 111, 110, 101>>
                       ELSE ColorText(c)
        PaletteLine(i) ==
            Line("\"", Code(i - 1) \o <<32, 99, 32>> \o colorStr(bitmap.Palette[i]))
        Row(y) ==
            Line("\"", [k \in 1 .. bitmap.Width * cpp |->
                          Code(bitmap.Data[y * bitmap.Width + ((k - 1) \div cpp) + 1])
                              [((k - 1) % cpp) + 1]])
        bad == \E idx \in 0 .. bitmap.Width * bitmap.Height - 1 :
                  \/ idx >= Len(bitmap.Data)
                  \/ bitmap.Data[idx + 1] >= codes
    IN  IF n > 255 \/ bad THEN [err |-> TRUE, lines |-> <<>>]
        ELSE [err   |-> FALSE,
              lines |-> <<header>> \o [i \in 1 .. n |-> PaletteLine(i)]
                        \o [y \in 1 .. bitmap.Height |-> Row(y - 1)]]

\* Writer.writePointType, writeLineType and writePolygonType: the lines of
\* one section.  order is the order in which the range loop visits Labels.
\* A night bitmap is written when it is not the day bitmap's pointer; the
\* two icons of a point are never the same pointer.
WriteSection(section, rec, order) ==
    LET isPoint == section = "[_point]"
        isLine  == section = "[_line]"
        day     == IF isPoint THEN rec.DayIcon ELSE rec.DayPattern
        night   == IF isPoint THEN rec.NightIcon ELSE rec.NightPattern
        shared  == ~isPoint /\ day # <<>> /\ rec.NightIsDay
        none    == [err |-> FALSE, lines |-> <<>>]
        Hex(key, v)    == Line(key, <<48, 120>> \o FormatInt(v, 16))
        Width(key, v)  == IF v > 0 THEN <<Line(key, FormatInt(v, 10))>> ELSE <<>>
        Colour(key, c) == IF c # ZeroColor THEN <<Line(key, ColorText(c))>> ELSE <<>>
        Lines(dayXpm, nightXpm) ==
            <<Line(section, <<>>), Hex("Type", rec.Type)>>
            \o (IF rec.SubType # 0 THEN <<Hex("SubType", rec.SubType)>> ELSE <<>>)
            \o [i \in 1 .. Len(order) |->
                  Line("String1", <<48, 120>> \o order[i] \o <<44>>
                                  \o rec.Labels[order[i]])]
            \o (IF isLine THEN Width("LineWidth", rec.LineWidth)
                               \o Width("BorderWidth", rec.BorderWidth)
                ELSE <<>>)
            \o Colour("DayColor", rec.DayColor)
            \o Colour("NightColor", rec.NightColor)
            \o (IF isLine THEN Colour("DayBorderColor", rec.DayBorderColor)
                               \o Colour("NightBorderColor", rec.NightBorderColor)
                ELSE <<>>)
            \o dayXpm \o nightXpm
            \o <<Line("[end]", <<>>), Line("", <<>>)>>
        Section(dayXpm, nightXpm) ==
            IF dayXpm.err \/ nightXpm.err THEN [err |-> TRUE, lines |-> <<>>]
            ELSE [err |-> FALSE, lines |-> Lines(dayXpm.lines, nightXpm.lines)]
    IN  Section(IF day # <<>> THEN writeXPM(day[1], "DayXpm") ELSE none,
                IF night # <<>> /\ ~shared THEN writeXPM(night[1], "NightXpm")
                ELSE none)

\* Writer.Write with writeHeader: the [_id] section, then the points, the
\* lines and the polygons in catalog order; the draw order section is
\* not written.
WriteText(typ, orders) ==
    LET Number(key, v) == IF v # 0 THEN <<Line(key, FormatInt(v, 10))>> ELSE <<>>
        header ==
            <<Line("[_id]", <<>>)>>
            \o Number("CodePage", typ.Header.CodePage)
            \o Number("FID", typ.Header.FID)
            \o Number("ProductCode", typ.Header.PID)
            \o <<Line("[end]", <<>>), Line("", <<>>)>>
        written ==
            [i \in 1 .. Len(typ.Points) |->
                WriteSection("[_point]", typ.Points[i], orders.Points[i])]
            \o [i \in 1 .. Len(typ.Lines) |->
                WriteSection("[_line]", typ.Lines[i], orders.Lines[i])]
            \o [i \in 1 .. Len(typ.Polygons) |->
                WriteSection("[_polygon]", typ.Polygons[i], orders.Polygons[i])]
        Flat[i \in 0 .. Len(written)] ==
            IF i = 0 THEN header ELSE Flat[i - 1] \o written[i].lines
    IN  IF \E i \in 1 .. Len(written) : written[i].err
        THEN [err |-> TRUE, lines |-> <<>>]
        ELSE [err |-> FALSE, lines |-> Flat[Len(written)]]

\* strings.TrimSpace, for the white space of ASCII: no string of the model
\* holds other white space.
TrimSpace(s) ==
    LET ink == {i \in 1 .. Len(s) : s[i] \notin {9, 10, 11, 12, 13, 32}}
    IN  IF ink = {} THEN <<>>
        ELSE SubSeq(s, CHOOSE i \in ink : \A j \in ink : i <= j,
                       CHOOSE i \in ink : \A j \in ink : i >= j)

\* strings.Fields: the maximal runs of characters that are not white space.
RECURSIVE Fields(_)
Fields(s) ==
    LET ink == {i \in 1 .. Len(s) : s[i] \notin {9, 10, 11, 12, 13, 32}}
        a   == CHOOSE i \in ink : \A j \in ink : i <= j
        gap == {i \in a .. Len(s) : s[i] \in {9, 10, 11, 12, 13, 32}}
        b   == IF gap = {} THEN Len(s) + 1
               ELSE CHOOSE i \in gap : \A j \in gap : i <= j
    IN  IF ink = {} THEN <<>>
        ELSE <<SubSeq(s, a, b - 1)>> \o Fields(SubSeq(s, b, Len(s)))

\* strconv.ParseUint(s, base, _): [ok, v], ok = FALSE for a syntax error,
\* where the code receives 0.
ParseUint(s, base) ==
    LET Val(c) == IF c \in 48 .. 57 THEN c - 48
                  ELSE IF c \in 97 .. 122 THEN c - 87
                  ELSE IF c \in 65 .. 90 THEN c - 55
                  ELSE 99
        D[i \in 0 .. Len(s)] ==
            IF i = 0 THEN 0
            ELSE IF D[i - 1] < 0 \/ Val(s[i]) >= base THEN 0 - 1
            ELSE D[i - 1] * base + Val(s[i])
        ok == s # <<>> /\ D[Len(s)] >= 0
    IN  [ok |-> ok, v |-> IF ok THEN D[Len(s)] ELSE 0]

\* strconv.ParseInt(s, base, 64), and strconv.Atoi(s) for base 10: an
\* optional sign, then digits.
ParseInt(s, base) ==
    LET Signed(u) == [ok |-> u.ok, v |-> IF s[1] = 45 THEN 0 - u.v ELSE u.v]
    IN  IF s # <<>> /\ s[1] \in {43, 45} THEN Signed(ParseUint(Tail(s), base))
        ELSE ParseUint(s, base)

\* parseHexInt: "0x2f06" or decimal, 0 when neither parses.
parseHexInt(s) ==
    LET t   == TrimSpace(s)
        hex == Len(t) >= 2 /\ t[1] = 48 /\ t[2] \in {120, 88}
        Pick(h, d) == IF hex /\ h.ok THEN h.v ELSE IF d.ok THEN d.v ELSE 0
    IN  Pick(ParseInt(SubSeq(t, 3, Len(t)), 16), ParseInt(t, 10))

\* parseColor: "#rrggbb" gives an opaque colour, anything else Color{}.
parseColor(s) ==
    LET t == TrimSpace(s)
        Hex(a) == ParseUint(SubSeq(t, a, a + 1), 16).v
    IN  IF t = <<>> \/ t[1] # 35 \/ Len(t) # 7 THEN ZeroColor
        ELSE Color(U8(Hex(2)), U8(Hex(4)), U8(Hex(6)), 255)

\* parseLabel: "0x04,Trail Junction" gives the key "04" and the text.
parseLabel(s) ==
    LET commas == {i \in 1 .. Len(s) : s[i] = 44}
        c      == CHOOSE i \in commas : \A j \in commas : i <= j
        code   == TrimSpace(SubSeq(s, 1, c - 1))
        ToLower(b) == IF b \in 65 .. 90 THEN b + 32 ELSE b
    IN  IF commas = {} THEN [ok |-> FALSE, langCode |-> <<>>, text |-> <<>>]
        ELSE [ok       |-> TRUE,
              langCode |-> IF Len(code) >= 2 /\ code[1] = 48 /\ code[2] \in {120, 88}
                           THEN [i \in 1 .. Len(code) - 2 |-> ToLower(code[i + 2])]
                           ELSE code,
              text     |-> TrimSpace(SubSeq(s, c + 1, Len(s)))]

\* newXPMBuilder, with the xpmTarget the caller sets beside it.  A number
\* that does not parse is 0.
newXPMBuilder(header, target) ==
    LET bare  == {i \in 1 .. Len(header) : header[i] # 34}
        parts == IF bare = {} THEN <<>>
                 ELSE Fields(SubSeq(header,
                                    CHOOSE i \in bare : \A j \in bare : i <= j,
                                    CHOOSE i \in bare : \A j \in bare : i >= j))
        Atoi(k) == IF Len(parts) < 4 THEN 0 ELSE ParseInt(parts[k], 10).v
    IN  [target |-> target, width |-> Atoi(1), height |-> Atoi(2),
         ncolors |-> Atoi(3), cpp |-> Atoi(4), lines |-> <<>>]

\* xpmBuilder.build: the bitmap of the collected lines, or an error.  The
\* run panics, which ends it like an error, when ncolors is above the
\* number of lines or a number of the header is negative.
build(x) ==
    LET n      == Len(x.lines)
        shown  == IF x.ncolors < n THEN x.ncolors ELSE n
        Rest(i) == Fields(TrimSpace(SubSeq(x.lines[i], x.cpp + 1, Len(x.lines[i]))))
        Entry(i) == Len(x.lines[i]) >= x.cpp + 3 /\ Len(Rest(i)) >= 2
        kept   == SelectSeq([i \in 1 .. shown |-> i], Entry)
        none   == <<110, 111, 110, 101>>
        ToLower(b) == IF b \in 65 .. 90 THEN b + 32 ELSE b
        ColorOf(parts) ==
            IF [k \in 1 .. Len(parts[2]) |-> ToLower(parts[2][k])] = none
            THEN ZeroColor
            ELSE parseColor(parts[2])
        palette == [k \in 1 .. Len(kept) |-> ColorOf(Rest(kept[k]))]
        Idx(charCode) ==
            LET ks == {k \in 1 .. Len(kept) :
                          SubSeq(x.lines[kept[k]], 1, x.cpp) = charCode}
            IN  IF ks = {} THEN 0
                ELSE U8((CHOOSE k \in ks : \A j \in ks : k >= j) - 1)
        pixelLines == SubSeq(x.lines, x.ncolors + 1, n)
        pixelData  ==
            [p \in 1 .. x.width * x.height |->
                Idx(SubSeq(pixelLines[((p - 1) \div x.width) + 1],
                           ((p - 1) % x.width) * x.cpp + 1,
                           ((p - 1) % x.width) * x.cpp + x.cpp))]
        colorMode == IF Len(palette) <= 2 THEN "Monochrome"
                     ELSE IF Len(palette) <= 16 THEN "Color16"
                     ELSE "Color256"
        failed == [err |-> TRUE, bitmap |-> <<>>]
    IN  IF n = 0 THEN failed
        ELSE IF x.ncolors > n \/ x.ncolors < 0 \/ x.cpp < 0
                \/ x.width < 0 \/ x.height < 0 THEN failed
        ELSE IF Len(pixelLines) # x.height THEN failed
        ELSE IF \E y \in 1 .. x.height : Len(pixelLines[y]) < x.width * x.cpp
        THEN failed
        ELSE [err    |-> FALSE,
              bitmap |-> Bitmap(x.width, x.height, colorMode, palette, pixelData)]

\* Reader.readHeader: the lines of the [_id] section from line i on.
RECURSIVE readHeader(_, _, _)
readHeader(lines, i, header) ==
    LET key    == lines[i].key
        v      == ParseInt(TrimSpace(lines[i].value), 10)
        Set(h) == readHeader(lines, i + 1, h)
    IN  IF i > Len(lines) THEN [header |-> header, i |-> i]
        ELSE IF key = "[end]" THEN [header |-> header, i |-> i + 1]
        ELSE IF key = "CodePage" /\ v.ok THEN Set([header EXCEPT !.CodePage = v.v])
        ELSE IF key = "FID" /\ v.ok THEN Set([header EXCEPT !.FID = v.v])
        ELSE IF key = "ProductCode" /\ v.ok THEN Set([header EXCEPT !.PID = v.v])
        ELSE Set(header)

\* Reader.readPointType, readLineType and readPolygonType: the lines of one
\* section from line i on.  rec is the record read so far, x the pending
\* XPM builder (currentXPM, <<>> for nil).
RECURSIVE ReadSection(_, _, _, _, _)
ReadSection(section, lines, i, rec, x) ==
    LET isPoint == section = "[_point]"
        isLine  == section = "[_line]"
        key     == lines[i].key
        value   == TrimSpace(lines[i].value)
        Label(r, l) ==
            IF l.ok
            THEN [r EXCEPT !.Labels =
                    [k \in DOMAIN r.Labels \cup {l.langCode} |->
                        IF k = l.langCode THEN l.text ELSE r.Labels[k]]]
            ELSE r
        Number(r, field, n) == IF n.ok THEN [r EXCEPT ![field] = n.v] ELSE r
        Field(r) ==
            CASE key = "Type" -> [r EXCEPT !.Type = parseHexInt(value)]
              [] key = "SubType" -> [r EXCEPT !.SubType = parseHexInt(value)]
              [] key \in {"String1", "String2", "String3"} ->
                    Label(r, parseLabel(value))
              [] isLine /\ key \in {"LineWidth", "BorderWidth"} ->
                    Number(r, key, ParseInt(value, 10))
              [] key \in {"DayColor", "NightColor"} ->
                    [r EXCEPT ![key] = parseColor(value)]
              [] isLine /\ key \in {"DayBorderColor", "NightBorderColor"} ->
                    [r EXCEPT ![key] = parseColor(value)]
              [] OTHER -> r
        started ==
            IF key = "DayXpm" \/ (isPoint /\ key = "IconXpm")
            THEN <<newXPMBuilder(value, "DayXpm")>>
            ELSE IF key = "NightXpm" THEN <<newXPMBuilder(value, "NightXpm")>>
            ELSE <<>>
        Assign(bitmap) ==
            IF x[1].target = "DayXpm"
            THEN IF isPoint THEN [rec EXCEPT !.DayIcon = <<bitmap>>]
                 ELSE [rec EXCEPT !.DayPattern = <<bitmap>>]
            ELSE IF isPoint THEN [rec EXCEPT !.NightIcon = <<bitmap>>]
                 ELSE [rec EXCEPT !.NightPattern = <<bitmap>>]
        Failed == [err |-> "build XPM", rec |-> rec, i |-> i]
        AtEnd(b) == IF b.err THEN Failed
                    ELSE [err |-> "", rec |-> Assign(b.bitmap), i |-> i + 1]
        AtField(b) ==
            IF b.err THEN Failed
            ELSE ReadSection(section, lines, i + 1, Field(Assign(b.bitmap)), started)
    IN  IF i > Len(lines) THEN [err |-> "", rec |-> rec, i |-> i]
        ELSE IF key \in {"", "#"} THEN ReadSection(section, lines, i + 1, rec, x)
        ELSE IF key = "[end]"
        THEN IF x = <<>> THEN [err |-> "", rec |-> rec, i |-> i + 1]
             ELSE AtEnd(build(x[1]))
        ELSE IF x # <<>> /\ key = "\""
        THEN ReadSection(section, lines, i + 1, rec,
                         <<[x[1] EXCEPT !.lines = Append(@, lines[i].value)]>>)
        ELSE IF x # <<>> THEN AtField(build(x[1]))
        ELSE ReadSection(section, lines, i + 1, Field(rec), started)

\* Reader.Read with skipToEnd: the catalog of the lines from line i on,
\* typ being the catalog read so far.  "[_drawOrder]" stands for every
\* section the reader does not know.
RECURSIVE Read(_, _, _)
Read(lines, i, typ) ==
    LET key  == lines[i].key
        ends == {j \in i + 1 .. Len(lines) : lines[j].key = "[end]"}
        Header(h) == Read(lines, h.i, [typ EXCEPT !.Header = h.header])
        Feature(field, r) ==
            IF r.err # "" THEN [err |-> r.err, typ |-> NewTYPFile]
            ELSE Read(lines, r.i, [typ EXCEPT ![field] = Append(@, r.rec)])
    IN  IF i > Len(lines) THEN [err |-> "", typ |-> typ]
        ELSE IF key = "[_id]" THEN Header(readHeader(lines, i + 1, typ.Header))
        ELSE IF key \in {"[_point]", "[_line]", "[_polygon]"}
        THEN Feature(IF key = "[_point]" THEN "Points"
                     ELSE IF key = "[_line]" THEN "Lines" ELSE "Polygons",
                     ReadSection(key, lines, i + 1,
                                 IF key = "[_point]" THEN ZeroPoint
                                 ELSE IF key = "[_line]" THEN ZeroLine
                                 ELSE ZeroPolygon,
                                 <<>>))
        ELSE IF key = "[_drawOrder]"
        THEN IF ends = {} THEN [err |-> "skip unknown section", typ |-> NewTYPFile]
             ELSE Read(lines, (CHOOSE j \in ends : \A k \in ends : j <= k) + 1, typ)
        ELSE Read(lines, i + 1, typ)

----------------------------------------------------------------------------
(* Specification SpecType: decode a wire word, then encode the result.     *)

NoType == [typ |-> 0 - 1, subtyp |-> 0 - 1]

\* No section is being written.
NoSection == [recs |-> <<>>, array |-> <<>>, size |-> 0, modulo |-> 0,
              read |-> <<>>]

IdleType ==
    /\ t16 = 0 /\ tdec = NoType /\ tenc = 0 - 1 /\ feature = NoType
    /\ index = NoSection
\* No point record is being written.
NoIcon == [pt   |-> ZeroPoint,
           rec  |-> [err |-> FALSE, bytes |-> <<>>],
           read |-> [err |-> "", rec |-> ZeroPoint]]

IdleBitmap ==
    /\ bmp = [width |-> 0, height |-> 0, bpp |-> 1, data |-> <<>>, pos |-> 0]
    /\ packed = [err |-> FALSE, bytes |-> <<>>]
    /\ unpacked = [err |-> FALSE, data |-> <<>>, n |-> 0]
    /\ icon = NoIcon

IdleLabels ==
    /\ codePage = 0
    /\ labels = <<>>
    /\ lblock = [err |-> FALSE, bytes |-> <<>>, order |-> <<>>]
    /\ lread = [err |-> FALSE, labels |-> <<>>, n |-> 0]

\* The flags of txt2bin when none is passed: cobra hands out the defaults
\* of init(), 0 for --fid and --pid and 1252 for --codepage.  changed tells
\* whether the flag was on the command line.
Flag(changed, value) == [changed |-> changed, value |-> value]

NoFlags ==
    [fid |-> Flag(FALSE, 0), pid |-> Flag(FALSE, 0), codepage |-> Flag(FALSE, 1252)]

\* runTxt2Bin, "Override header fields if specified": the code sees the
\* values only.
OverrideHeader(typ, fl) ==
    LET fid  == IF fl.fid.value # 0 THEN fl.fid.value ELSE typ.Header.FID
        pid  == IF fl.pid.value # 0 THEN fl.pid.value ELSE typ.Header.PID
        page == IF fl.codepage.value # 0 /\ fl.codepage.value # 1252
                THEN fl.codepage.value
                ELSE IF typ.Header.CodePage = 0 THEN 1252
                ELSE typ.Header.CodePage
    IN  [typ EXCEPT !.Header.FID = fid, !.Header.PID = pid,
                    !.Header.CodePage = page]

\* The binary reader before Parse, the text reader before Read.
NoReader ==
    [typHeader |-> NoTYPHeader, decoder |-> "nil", i |-> 0, acc |-> <<>>,
     reads |-> 0]

IdleConv ==
    /\ bins = <<>>
    /\ txts = <<>>
    /\ cats = <<>>
    /\ typFile = NewTYPFile
    /\ rd = NoReader
    /\ opts = NoFlags
    /\ input = ""
    /\ err = ""

InitType ==
    /\ pc = "type"
    /\ t16 \in 0 .. 65535
    /\ tdec = NoType
    /\ tenc = 0 - 1
    /\ feature = NoType
    /\ index = NoSection
    /\ IdleBitmap
    /\ IdleLabels
    /\ IdleConv

DecodeType ==
    /\ pc = "type"
    /\ tdec' = decodeTypeSubtype(t16)
    /\ pc' = "decoded"
    /\ UNCHANGED <<t16, tenc, feature, index, bitmapVars, labelVars, convVars>>

EncodeType ==
    /\ pc = "decoded"
    /\ tenc' = encodeTypeSubtype(tdec.typ, tdec.subtyp)
    /\ pc' = "encoded"
    /\ UNCHANGED <<t16, tdec, feature, index, bitmapVars, labelVars, convVars>>

NextType == DecodeType \/ EncodeType

SpecType == InitType /\ [][NextType]_vars

\* C1: for every 16-bit wire word w, encoding what decodeTypeSubtype
\* returns for w yields w again.
TypeRoundTrip == pc = "encoded" => tenc = t16

----------------------------------------------------------------------------
(* Specification SpecFeature: the writer encodes the Type and SubType of   *)
(* a feature into the word of its array entry, the reader decodes the      *)
(* word.                                                                   *)

\* Type codes: a type of 1, 10, 47, 255 or 0x10a in the second byte and up,
\* a low byte of 0, 3, 5 or 31, without and with the extended flag 0x10000;
\* 0x10a03 is among them.  Subtypes: 0, 3, 5, 31.
InitFeature ==
    /\ pc = "feature"
    /\ t16 = 0
    /\ tdec = NoType
    /\ tenc = 0 - 1
    /\ \E ext \in {0, 65536}, typ \in {1, 10, 47, 255, 266},
          low \in {0, 3, 5, 31}, subtyp \in {0, 3, 5, 31} :
          feature = [typ |-> ext + 256 * typ + low, subtyp |-> subtyp]
    /\ index = NoSection
    /\ IdleBitmap
    /\ IdleLabels
    /\ IdleConv

\* writePointTypes (writeLineTypes, writePolygonTypes): the type code of
\* the array entry.
EncodeFeature ==
    /\ pc = "feature"
    /\ tenc' = encodeTypeSubtype(feature.typ, feature.subtyp)
    /\ pc' = "word"
    /\ UNCHANGED <<t16, tdec, feature, index, bitmapVars, labelVars, convVars>>

\* readPointTypes (readLineTypes, readPolygonTypes): the word of the array
\* entry, decoded.
DecodeWord ==
    /\ pc = "word"
    /\ t16' = tenc
    /\ tdec' = decodeTypeSubtype(tenc)
    /\ pc' = "back"
    /\ UNCHANGED <<tenc, feature, index, bitmapVars, labelVars, convVars>>

NextFeature == EncodeFeature \/ DecodeWord

SpecFeature == InitFeature /\ [][NextFeature]_vars

\* C20: the word written for a feature decodes to the feature's type code
\* and subtype; for type 0x10a03 with subtype 5 the word has bit 0x2000
\* set.
TypeSubtypeThroughWire ==
    pc = "back" =>
        /\ tdec.typ = feature.typ
        /\ tdec.subtyp = feature.subtyp
        /\ feature = [typ |-> 68099, subtyp |-> 5] => BitAnd(tenc, 8192) = 8192

----------------------------------------------------------------------------
(* Specification SpecBitmap: pack a pixel plane, then unpack the bytes.    *)

MaxPixels == 5

\* The planes: pixel values that fit in bpp bits (both ends, the lowest
\* and the highest single bit); one-bit planes get room to cross a byte
\* boundary.  Below 8 bpp a plane may also hold, in one place, a value
\* that needs one bit more.
InitBitmap ==
    /\ pc = "plane"
    /\ IdleType
    /\ IdleLabels
    /\ IdleConv
    /\ \E width \in 0 .. MaxPixels, height \in 0 .. MaxPixels,
          bpp \in {1, 2, 4, 8}, pos \in {0, 3} :
          /\ width * height <= (IF bpp = 1 THEN MaxPixels + 4 ELSE MaxPixels)
          /\ \E fit \in [1 .. width * height ->
                              {0, 1, Pow2(bpp - 1), Pow2(bpp) - 1}] :
                \E data \in {fit} \cup {[fit EXCEPT ![i] = Pow2(bpp)] :
                                            i \in IF bpp < 8
                                                  THEN 1 .. width * height
                                                  ELSE {}} :
                   bmp = [width |-> width, height |-> height, bpp |-> bpp,
                          data |-> data, pos |-> pos]
    /\ packed = [err |-> FALSE, bytes |-> <<>>]
    /\ unpacked = [err |-> FALSE, data |-> <<>>, n |-> 0]
    /\ icon = NoIcon

\* The record buffer holds bmp.pos bytes before the packed bitmap.
PackBitmap ==
    /\ pc = "plane"
    /\ packed' = writeBitmap(bmp.data, bmp.width, bmp.height, bmp.bpp)
    /\ pc' = "packed"
    /\ UNCHANGED <<typeVars, bmp, unpacked, icon, labelVars, convVars>>

UnpackBitmap ==
    /\ pc = "packed"
    /\ ~packed.err
    /\ unpacked' = readBitmap([i \in 1 .. bmp.pos |-> 255] \o packed.bytes,
                              bmp.pos, bmp.width, bmp.height, bmp.bpp)
    /\ pc' = "unpacked"
    /\ UNCHANGED <<typeVars, bmp, packed, icon, labelVars, convVars>>

NextBitmap == PackBitmap \/ UnpackBitmap

SpecBitmap == InitBitmap /\ [][NextBitmap]_vars

\* C3: packing a plane whose values fit in bpp bits never fails, the packed
\* length is ceil(width*height*bpp/8), and unpacking returns the plane.
BitmapRoundTrip ==
    (\A i \in 1 .. Len(bmp.data) : bmp.data[i] < Pow2(bmp.bpp)) =>
        /\ pc = "packed" =>
              /\ ~packed.err
              /\ 8 * Len(packed.bytes) >= bmp.width * bmp.height * bmp.bpp
              /\ 8 * Len(packed.bytes) < bmp.width * bmp.height * bmp.bpp + 8
        /\ pc = "unpacked" =>
              /\ ~unpacked.err
              /\ unpacked.data = bmp.data
              /\ unpacked.n = Len(packed.bytes)

\* A plane of several pixels that uses a value other than 0 and the
\* all-ones value has been packed below 8 bpp and unpacked again.
BitmapRoundTripWitness ==
    /\ pc = "unpacked"
    /\ bmp.bpp = 2 /\ bmp.width * bmp.height > 4
    /\ \E i \in 1 .. Len(bmp.data) : bmp.data[i] = 2
    /\ \E i \in 1 .. Len(bmp.data) : bmp.data[i] = 1
    /\ unpacked.data = bmp.data

\* C15: packing a plane in which some pixel value exceeds 2^bpp - 1 fails,
\* and no bytes are produced for it.
PackRejectsWideIndex ==
    /\ pc \in {"packed", "unpacked"}
    /\ \E i \in 1 .. Len(bmp.data) : bmp.data[i] > Pow2(bmp.bpp) - 1
    => packed.err /\ packed.bytes = <<>>

----------------------------------------------------------------------------
(* Specification SpecLabels: write a label map as a label block, then read *)
(* the block back, as written or damaged.                                  *)

MaxLabels == 2

\* The orders in which a range loop may visit the keys of a map.
KeyOrders(lm) ==
    { o \in [1 .. Cardinality(DOMAIN lm) -> DOMAIN lm] :
        \A i, j \in 1 .. Cardinality(DOMAIN lm) : i # j => o[i] # o[j] }

\* The label maps: up to MaxLabels of four language codes, with the
\* strings "Tr", "é", "Főváros", and runs of 'x' around the prefix-size
\* boundary, "abc" followed by a Cyrillic or a Turkish letter, and "AB"
\* and "ABC" followed by the control character 0x01.
InitLabels ==
    /\ pc = "labels"
    /\ IdleType
    /\ IdleBitmap
    /\ IdleConv
    /\ codePage \in {437, 850, 1250, 1251, 1252, 1254, 65001}
    /\ labels \in
         LET Repeat(b, k) == [i \in 1 .. k |-> b]
             LabelStrings ==
                 { Utf8Str(<<84, 114>>), Utf8Str(<<233>>),
                   Utf8Str(<<70, 337, 118, 225, 114, 111, 115>>),
                   Utf8Str(<<97, 98, 99, 1044>>), Utf8Str(<<97, 98, 99, 287>>),
                   <<65, 66, 1>>, <<65, 66, 67, 1>>,
                   Repeat(120, 3), Repeat(120, 125), Repeat(120, 126) }
             LangKeys ==
                 { Sprintf02x(0), Sprintf02x(4), Sprintf02x(19), Sprintf02x(63) }
         IN  UNION { [K -> LabelStrings] :
                     K \in {J \in SUBSET LangKeys : Cardinality(J) <= MaxLabels} }
    /\ lblock = [err |-> FALSE, bytes |-> <<>>, order |-> <<>>]
    /\ lread = [err |-> FALSE, labels |-> <<>>, n |-> 0]

WriteLabels ==
    /\ pc = "labels"
    /\ \E order \in KeyOrders(labels) :
          lblock' = writeLabels(setupEncoder(codePage), labels, order)
    /\ pc' = "labelswritten"
    /\ UNCHANGED <<typeVars, bitmapVars, codePage, labels, lread, convVars>>

\* The block is read as it is, and with bytes following it inside the
\* record buffer.
ReadLabels ==
    /\ pc = "labelswritten"
    /\ ~lblock.err
    /\ \E tail \in { <<>>, <<4, 65, 0, 9>> } :
          lread' = readLabels(setupEncoder(codePage), lblock.bytes \o tail)
    /\ pc' = "labelsread"
    /\ UNCHANGED <<typeVars, bitmapVars, codePage, labels, lblock, convVars>>

\* The block is read without its last byte, the terminator of its last
\* string: the buffer ends inside the string.
ReadCutLabels ==
    /\ pc = "labelswritten"
    /\ ~lblock.err
    /\ DOMAIN labels # {}
    /\ lread' = readLabels(setupEncoder(codePage),
                           SubSeq(lblock.bytes, 1, Len(lblock.bytes) - 1))
    /\ pc' = "cutread"
    /\ UNCHANGED <<typeVars, bitmapVars, codePage, labels, lblock, convVars>>

\* The block has a two-byte prefix and is read with the prefix value
\* lowered by 2: the counter is 2 after the last character of the last
\* string and goes to -2 on the terminator.
ReadMiscountedLabels ==
    /\ pc = "labelswritten"
    /\ ~lblock.err
    /\ lblock.bytes[1] % 2 = 0
    /\ \E P \in {lblock.bytes[1] + 256 * lblock.bytes[2] - 2} :
          lread' = readLabels(setupEncoder(codePage),
                              <<P % 256, P \div 256>>
                              \o SubSeq(lblock.bytes, 3, Len(lblock.bytes))
                              \o <<4, 65, 0, 9>>)
    /\ pc' = "miscountedread"
    /\ UNCHANGED <<typeVars, bitmapVars, codePage, labels, lblock, convVars>>

NextLabels == WriteLabels \/ ReadLabels \/ ReadCutLabels \/ ReadMiscountedLabels

SpecLabels == InitLabels /\ [][NextLabels]_vars

\* The string decodes back to itself under the codepage.
Survives(cp, str) ==
    decodeString(setupEncoder(cp), encodeString(setupEncoder(cp), str)) = str

\* C2: for every label map whose language codes are in 0x00..0x3F and
\* whose strings survive the codepage unchanged, reading the block that
\* writeLabels emits returns exactly the map, nothing dropped.
LabelRoundTrip ==
    (pc = "labelsread" /\ \A k \in DOMAIN labels : Survives(codePage, labels[k]))
        => (~lread.err /\ lread.labels = labels)

\* C23: when the block of a label map has been read, the label of a key is
\* in the map returned exactly when at most 30% of the characters of its
\* decoded string are not printable; a label all of whose characters are
\* printable is in the map.
PrintableLabelKept ==
    LET cm == setupEncoder(codePage)
        Printable(r) == (r >= 32 /\ r < 127) \/ r >= 160
        Chars(k) == Runes(decodeString(cm, encodeString(cm, labels[k])))
        Bad(rs) == Cardinality({i \in 1 .. Len(rs) : ~Printable(rs[i])})
    IN  pc = "labelsread" =>
            \A k \in DOMAIN labels :
                Chars(k) # <<>> =>
                    (k \in DOMAIN lread.labels <=> Bad(Chars(k)) * 100 <= 30 * Len(Chars(k)))

\* C24: reading a label block whose buffer ends before the terminator of
\* its last string, or whose length counter goes below zero, reports an
\* error.
LabelBlockCorruptReported ==
    pc \in {"cutread", "miscountedread"} => lread.err

\* D: the length of the entry data of the label map (langcode, encoded
\* string, terminator for each entry).
RECURSIVE EntryDataLen(_, _, _)
EntryDataLen(cp, lm, keys) ==
    IF keys = {} THEN 0
    ELSE LET k == CHOOSE x \in keys : TRUE
         IN  1 + Len(encodeString(setupEncoder(cp), lm[k])) + 1
             + EntryDataLen(cp, lm, keys \ {k})

LabelD == EntryDataLen(codePage, labels, DOMAIN labels)

\* C10 as stated: n = 1 exactly when 2*D + 1 <= 255, and the prefix value
\* is 2*D + n, low bit set for n = 1 and cleared for n = 2.
LabelPrefixFlat ==
    pc = "labelswritten" =>
        IF 2 * LabelD + 1 <= 255
        THEN /\ Len(lblock.bytes) = LabelD + 1
             /\ lblock.bytes[1] = 2 * LabelD + 1
        ELSE /\ Len(lblock.bytes) = LabelD + 2
             /\ lblock.bytes[1] + 256 * lblock.bytes[2] = 2 * LabelD + 2

\* C10 amended: n = 1 exactly when 2*D + 1 <= 255, and the prefix value
\* is 2*n*D + n (odd for n = 1, even for n = 2), followed by the D bytes.
LabelPrefixScaled ==
    pc = "labelswritten" =>
        IF 2 * LabelD + 1 <= 255
        THEN /\ Len(lblock.bytes) = LabelD + 1
             /\ lblock.bytes[1] = 2 * LabelD + 1
             /\ lblock.bytes[1] % 2 = 1
        ELSE /\ Len(lblock.bytes) = LabelD + 2
             /\ lblock.bytes[1] + 256 * lblock.bytes[2] = 4 * LabelD + 2
             /\ lblock.bytes[1] % 2 = 0

\* A single entry with a 126-byte string (D = 128) has been written with
\* the two prefix bytes 0x02, 0x02.
LabelPrefixWitness ==
    /\ pc = "labelswritten"
    /\ Cardinality(DOMAIN labels) = 1
    /\ LabelD = 128
    /\ lblock.bytes[1] = 2 /\ lblock.bytes[2] = 2

\* C14: under each of the codepages 437, 1250, 1251, 1252, 1254 a label
\* is written with the bytes of that codepage's own table and read back
\* as the text it was; under 65001 it is written as its UTF-8 bytes; under
\* any other codepage it is written with the bytes of Windows-1252.  The
\* tables are the standard ones, cut down to the letters of the model's
\* labels (e acute, a acute, o double acute, Cyrillic De, g breve), and the
\* property is about the labels all of whose letters the table has.
CodepageOwnTable ==
    LET Own(cp) ==
            IF cp = 437 THEN {<<130, 233>>, <<160, 225>>}
            ELSE IF cp = 1250 THEN {<<233, 233>>, <<225, 225>>, <<245, 337>>}
            ELSE IF cp = 1251 THEN {<<196, 1044>>}
            ELSE IF cp = 1254 THEN {<<233, 233>>, <<225, 225>>, <<240, 287>>}
            ELSE {<<233, 233>>, <<225, 225>>}
        Known(cp, rs) ==
            \/ cp = 65001
            \/ \A i \in 1 .. Len(rs) :
                  rs[i] < 128 \/ \E p \in Own(cp) : p[2] = rs[i]
        Bytes(cp, str, rs) ==
            IF cp = 65001 THEN str
            ELSE [i \in 1 .. Len(rs) |->
                    IF rs[i] < 128 THEN rs[i]
                    ELSE (CHOOSE p \in Own(cp) : p[2] = rs[i])[1]]
        runes == [k \in DOMAIN labels |-> Runes(labels[k])]
        Data[i \in 0 .. Len(lblock.order)] ==
            IF i = 0 THEN <<>>
            ELSE Data[i - 1] \o <<SscanfHex(lblock.order[i], 0)>>
                 \o Bytes(codePage, labels[lblock.order[i]],
                          runes[lblock.order[i]]) \o <<0>>
    IN  /\ pc \in {"labelswritten", "labelsread"}
        /\ ~lblock.err
        /\ \A k \in DOMAIN labels : Known(codePage, runes[k])
        => /\ \E n \in {1, 2} :
                 SubSeq(lblock.bytes, n + 1, Len(lblock.bytes))
                    = Data[Len(lblock.order)]
           /\ pc = "labelsread" =>
                 \A k \in DOMAIN lread.labels : lread.labels[k] = labels[k]

----------------------------------------------------------------------------
(* Reader.Parse as a state machine over the newest binary file: one step   *)
(* for the header, one per section to size its index array, one per index  *)
(* entry.  rd.reads counts the ReadAt calls issued so far.                 *)

\* The file handed to binary.NewReader.
File == bins[Len(bins)]

\* Parse up to the return of ReadHeader: a header error ends the parse
\* with no catalog.
ParseHeader ==
    LET HeaderRead(h) ==
            /\ rd' = [NoReader EXCEPT !.typHeader = h.typHeader,
                                      !.decoder = h.decoder, !.reads = 1]
            /\ IF h.err # ""
               THEN /\ pc' = "failed"
                    /\ err' = "read header"
                    /\ typFile' = NewTYPFile
               ELSE /\ pc' = "points"
                    /\ err' = ""
                    /\ typFile' = [NewTYPFile EXCEPT !.Header = h.header]
    IN  /\ pc = "parse"
        /\ HeaderRead(ReadHeader(File))
        /\ UNCHANGED <<bins, txts, cats, input, opts, typeVars, bitmapVars, labelVars>>

\* numEntries of ReadPointTypes, ReadLineTypes and ReadPolygonTypes.
NumEntries(section) == section.ArraySize \div section.ArrayModulo

\* Parse returns the catalog after the last section.
Advance(nextPc, typ1) ==
    /\ pc' = nextPc
    /\ typFile' = typ1
    /\ cats' = IF nextPc = "parsed" THEN Append(cats, typ1) ELSE cats

\* The guard of Parse on ArraySize and the first test of ReadXTypes: an
\* empty array is skipped, a modulo that is zero or does not divide the
\* array size yields no features and no error.
BeginSection(section, entryPc, nextPc) ==
    IF /\ section.ArraySize > 0
       /\ section.ArrayModulo # 0
       /\ section.ArraySize % section.ArrayModulo = 0
    THEN /\ pc' = entryPc
         /\ rd' = [rd EXCEPT !.i = 0, !.acc = <<>>]
         /\ UNCHANGED <<typFile, cats>>
    ELSE /\ Advance(nextPc, typFile)
         /\ UNCHANGED rd

\* The record reader of a section: readPointData, readPolylineData or
\* readPolygonData with the reader's decoder.
ReadData(field, offset, t, subtyp) ==
    IF field = "Points" THEN readPointData(rd.decoder, File, offset, t, subtyp)
    ELSE IF field = "Lines" THEN readPolylineData(rd.decoder, File, offset, t, subtyp)
    ELSE readPolygonData(rd.decoder, File, offset, t, subtyp)

\* Iteration i of the loop of ReadXTypes: the index entry, and the record
\* it names (its offset in the file and its decoded type word).
EntryAt(section, i) ==
    readArrayEntry(File, section.ArrayOffset + i * section.ArrayModulo,
                   section.ArrayModulo)
RecordAt(section, i) ==
    LET e == EntryAt(section, i)
        t == decodeTypeSubtype(e.typeCode)
    IN  [offset |-> section.DataOffset + e.dataOffset,
         typ |-> t.typ, subtyp |-> t.subtyp]

\* One iteration of the loop of ReadXTypes: the index entry e, then the
\* record d.  Any error ends the parse with no catalog.
ReadEntry(section, field, nextPc, what, e, d) ==
    IF e.err # ""
    THEN /\ pc' = "failed"
         /\ err' = what
         /\ rd' = [rd EXCEPT !.reads = @ + 1]
         /\ UNCHANGED <<typFile, cats>>
    ELSE IF d.err # ""
    THEN /\ pc' = "failed"
         /\ err' = what
         /\ rd' = [rd EXCEPT !.reads = @ + 2]
         /\ UNCHANGED <<typFile, cats>>
    ELSE /\ rd' = [rd EXCEPT !.i = @ + 1, !.acc = Append(@, d.rec), !.reads = @ + 2]
         /\ err' = err
         /\ IF rd.i + 1 < NumEntries(section)
            THEN UNCHANGED <<pc, typFile, cats>>
            ELSE Advance(nextPc, [typFile EXCEPT ![field] = Append(rd.acc, d.rec)])

ReadPointTypes ==
    /\ pc = "points"
    /\ BeginSection(rd.typHeader.Points, "pointEntry", "lines")
    /\ UNCHANGED <<bins, txts, input, opts, err, typeVars, bitmapVars, labelVars>>

ReadPointEntry ==
    /\ pc = "pointEntry"
    /\ ReadEntry(rd.typHeader.Points, "Points", "lines", "read point types",
                 EntryAt(rd.typHeader.Points, rd.i),
                 readPointData(rd.decoder, File,
                    RecordAt(rd.typHeader.Points, rd.i).offset,
                    RecordAt(rd.typHeader.Points, rd.i).typ,
                    RecordAt(rd.typHeader.Points, rd.i).subtyp))
    /\ UNCHANGED <<bins, txts, input, opts, typeVars, bitmapVars, labelVars>>

ReadLineTypes ==
    /\ pc = "lines"
    /\ BeginSection(rd.typHeader.Polylines, "lineEntry", "polygons")
    /\ UNCHANGED <<bins, txts, input, opts, err, typeVars, bitmapVars, labelVars>>

ReadLineEntry ==
    /\ pc = "lineEntry"
    /\ ReadEntry(rd.typHeader.Polylines, "Lines", "polygons", "read line types",
                 EntryAt(rd.typHeader.Polylines, rd.i),
                 readPolylineData(rd.decoder, File,
                    RecordAt(rd.typHeader.Polylines, rd.i).offset,
                    RecordAt(rd.typHeader.Polylines, rd.i).typ,
                    RecordAt(rd.typHeader.Polylines, rd.i).subtyp))
    /\ UNCHANGED <<bins, txts, input, opts, typeVars, bitmapVars, labelVars>>

ReadPolygonTypes ==
    /\ pc = "polygons"
    /\ BeginSection(rd.typHeader.Polygons, "polygonEntry", "parsed")
    /\ UNCHANGED <<bins, txts, input, opts, err, typeVars, bitmapVars, labelVars>>

ReadPolygonEntry ==
    /\ pc = "polygonEntry"
    /\ ReadEntry(rd.typHeader.Polygons, "Polygons", "parsed", "read polygon types",
                 EntryAt(rd.typHeader.Polygons, rd.i),
                 readPolygonData(rd.decoder, File,
                    RecordAt(rd.typHeader.Polygons, rd.i).offset,
                    RecordAt(rd.typHeader.Polygons, rd.i).typ,
                    RecordAt(rd.typHeader.Polygons, rd.i).subtyp))
    /\ UNCHANGED <<bins, txts, input, opts, typeVars, bitmapVars, labelVars>>

Parse ==
    \/ ParseHeader
    \/ ReadPointTypes \/ ReadPointEntry
    \/ ReadLineTypes \/ ReadLineEntry
    \/ ReadPolygonTypes \/ ReadPolygonEntry


----------------------------------------------------------------------------
(* Specification SpecParse: Reader.Parse on binary inputs laid out by      *)
(* hand, well-formed and malformed.                                        *)

MaxEntries == 3
MaxTail == 1

\* The time.Now() of a written header.
SampleNow ==
    [Year |-> 2024, Month |-> 5, Day |-> 17, Hour |-> 10, Minute |-> 30,
     Second |-> 0]

Zeros(n) == [i \in 1 .. n |-> 0]

\* The 0x5B header bytes of an input: the layout of writeHeader with the
\* signature, version and codepage stored as given.
CraftHeader(sig, h, info) ==
    LET w == writeHeader(h, info, SampleNow)
    IN  SubSeq(w, 1, 2) \o sig \o PutUint16(h.Version) \o SubSeq(w, 15, 21)
        \o PutUint16(h.CodePage) \o SubSeq(w, 24, headerSize)

NoSections ==
    [pointsDataOffset |-> 0, pointsDataSize |-> 0,
     polylinesDataOffset |-> 0, polylinesDataSize |-> 0,
     polygonsDataOffset |-> 0, polygonsDataSize |-> 0,
     pointsArrayOffset |-> 0, pointsArrayModulo |-> 0, pointsArraySize |-> 0,
     polylinesArrayOffset |-> 0, polylinesArrayModulo |-> 0,
     polylinesArraySize |-> 0,
     polygonsArrayOffset |-> 0, polygonsArrayModulo |-> 0,
     polygonsArraySize |-> 0,
     orderArrayOffset |-> 0, orderArrayModulo |-> 0, orderArraySize |-> 0]

\* One record of an input: the wire type word of its index entry, its
\* bytes, and where it goes: "ok" in the data area, "trunc" at the very end
\* of the file (the file ends inside the record), "range" nowhere (its index
\* entry points past the end of the file).
Rec(code, kind, bytes) == [code |-> code, kind |-> kind, bytes |-> bytes]

\* Point records: a 2 x 2 day icon; the same with a label block; an entry
\* out of range; the icon with a text colour block; a 16 x 16 icon cut
\* after three bitmap bytes; a day and a night icon.
PointSamples ==
    << Rec(1510, "ok", <<1, 2, 2, 2, 16, 0, 0, 255, 255, 255, 255, 144>>),
       Rec(1511, "ok", <<5, 2, 2, 2, 16, 0, 0, 255, 255, 255, 255, 96,
                         9, 4, 65, 98, 0>>),
       Rec(1512, "range", <<>>),
       Rec(9734, "ok", <<9, 2, 2, 2, 16, 0, 0, 255, 255, 255, 255, 96,
                         10, 1, 2, 3>>),
       Rec(1514, "trunc", <<1, 16, 16, 2, 16, 0, 0, 255, 255, 255, 255,
                            170, 85, 170>>),
       Rec(1515, "ok", <<3, 2, 2, 2, 16, 0, 0, 255, 255, 255, 255, 144,
                         2, 16, 10, 20, 30, 40, 50, 60, 96>>) >>

\* Line records: solid, one colour set; colour type 2, which the reader
\* does not know; a one-row pattern with day and night colours; an entry
\* out of range; a two-row pattern cut after its first row; solid with day
\* and night colours and a label.
LineSamples ==
    << Rec(32, "ok", <<0, 0, 1, 2, 3, 4, 5, 6, 3, 1>>),
       Rec(33, "ok", <<2, 0, 1, 2, 3, 4, 5, 6, 3, 1>>),
       Rec(34, "ok", <<9, 0, 1, 2, 3, 4, 5, 6, 7, 8, 9, 10, 11, 12,
                       240, 15, 240, 15>>),
       Rec(35, "range", <<>>),
       Rec(36, "trunc", <<16, 0, 1, 2, 3, 4, 5, 6, 240, 15, 240, 15>>),
       Rec(37, "ok", <<1, 1, 1, 2, 3, 4, 5, 6, 7, 8, 9, 10, 11, 12, 2, 0,
                       9, 4, 65, 98, 0>>) >>

\* Polygon records: one colour; colour type 0, which the reader does not
\* know; day and night colours; an entry out of range; a 32 x 32 pattern
\* cut after ten bitmap bytes; one colour and a label.
PolygonSamples ==
    << Rec(64, "ok", <<6, 1, 2, 3>>),
       Rec(65, "ok", <<0, 1, 2, 3>>),
       Rec(66, "ok", <<7, 1, 2, 3, 4, 5, 6>>),
       Rec(67, "range", <<>>),
       Rec(68, "trunc", <<8, 1, 2, 3, 4, 5, 6,
                          1, 2, 3, 4, 5, 6, 7, 8, 9, 10>>),
       Rec(69, "ok", <<22, 1, 2, 3, 9, 4, 65, 98, 0>>) >>

\* The bytes of the records flat[ord[1]], flat[ord[2]], ... in a row.
RECURSIVE DataOf(_, _)
DataOf(flat, ord) ==
    IF ord = <<>> THEN <<>>
    ELSE flat[Head(ord)].bytes \o DataOf(flat, Tail(ord))

\* The offset of record j in the data area, as its index entry stores it;
\* a record out of range gets an offset past the end of every input, as
\* large as the entry can hold.
RecOffset(flat, ord, j, modulo) ==
    IF flat[j].kind = "range" THEN (IF modulo = 3 THEN 255 ELSE 65535)
    ELSE LET p == CHOOSE q \in 1 .. Len(ord) : ord[q] = j
         IN  Len(DataOf(flat, SubSeq(ord, 1, p - 1)))

\* The index array of a section whose records are flat[base + 1 ..]: per
\* entry the type word, then the offset in the remaining bytes, low byte
\* first; then the bytes left over after the last whole entry.
RECURSIVE Entries(_, _, _, _, _)
Entries(flat, ord, cfg, base, i) ==
    LET EntryBytes(code, off) ==
            PutUint16(code)
            \o [k \in 1 .. cfg.modulo - 2 |-> (off \div Pow2(8 * (k - 1))) % 256]
    IN  IF i > Len(cfg.recs) THEN Zeros(cfg.tail)
        ELSE EntryBytes(cfg.recs[i].code,
                        RecOffset(flat, ord, base + i, cfg.modulo))
             \o Entries(flat, ord, cfg, base, i + 1)

\* The input file: header, the three index arrays, zeros up to the data
\* area, the records.  The data area ends the file, which is at least 256
\* bytes long.
Assemble(sig, h, modulos, pointsArray, polylinesArray, polygonsArray, data) ==
    LET arraysEnd == headerSize + Len(pointsArray) + Len(polylinesArray)
                     + Len(polygonsArray)
        dataStart == IF arraysEnd > headerBufSize - Len(data) THEN arraysEnd
                     ELSE headerBufSize - Len(data)
        info == [NoSections EXCEPT
                   !.pointsDataOffset     = dataStart,
                   !.pointsDataSize       = Len(data),
                   !.polylinesDataOffset  = dataStart,
                   !.polylinesDataSize    = Len(data),
                   !.polygonsDataOffset   = dataStart,
                   !.polygonsDataSize     = Len(data),
                   !.pointsArrayOffset    = headerSize,
                   !.pointsArrayModulo    = modulos[1],
                   !.pointsArraySize      = Len(pointsArray),
                   !.polylinesArrayOffset = headerSize + Len(pointsArray),
                   !.polylinesArrayModulo = modulos[2],
                   !.polylinesArraySize   = Len(polylinesArray),
                   !.polygonsArrayOffset  = headerSize + Len(pointsArray)
                                            + Len(polylinesArray),
                   !.polygonsArrayModulo  = modulos[3],
                   !.polygonsArraySize    = Len(polygonsArray)]
    IN  CraftHeader(sig, h, info) \o pointsArray \o polylinesArray
        \o polygonsArray \o Zeros(dataStart - arraysEnd) \o data

\* The input files with the sections pts, lns and pgs, one per signature.
\* In the data area the records cut off by the end of the file come last,
\* those out of range not at all.
Layout(sigs, h, pts, lns, pgs) ==
    LET recs  == pts.recs \o lns.recs \o pgs.recs
        idx   == [i \in 1 .. Len(recs) |-> i]
        order == SelectSeq(idx, LAMBDA i : recs[i].kind = "ok")
                 \o SelectSeq(idx, LAMBDA i : recs[i].kind = "trunc")
    IN  { Assemble(sig, h, <<pts.modulo, lns.modulo, pgs.modulo>>,
                   a[1], a[2], a[3], a[4]) :
          sig \in sigs,
          a \in { << Entries(flat, ord, pts, 0, 1),
                     Entries(flat, ord, lns, Len(pts.recs), 1),
                     Entries(flat, ord, pgs, Len(pts.recs) + Len(lns.recs), 1),
                     DataOf(flat, ord) >> :
                  flat \in {recs}, ord \in {order} } }

SectionHeader == [Version |-> 1, CodePage |-> 1252, FID |-> 3511, PID |-> 1]

\* The inputs of Parse.  Header only: a header with one of four signatures
\* ("GARMIN TYP" and three byte strings that differ from it) and nothing
\* else, cut or zero-padded to a length.  With index arrays: one section
\* takes every configuration (a modulo, up to MaxEntries consecutive
\* samples starting anywhere in the list, up to MaxTail bytes left over
\* after the last whole entry), the other two are empty or hold one
\* record; at most one record of a file is the one the file ends in.
ParseInputs ==
    LET garbled == <<71, 65, 82, 77, 73, 78, 32, 84, 89, 81>>
        Signatures ==
            { Signature, garbled,
              <<103, 65, 82, 77, 73, 78, 32, 84, 89, 80>>, Zeros(10) }
        HeaderSamples ==
            { [Version |-> 1, CodePage |-> 1252, FID |-> 3511, PID |-> 1],
              [Version |-> 0, CodePage |-> 0, FID |-> 0, PID |-> 0],
              [Version |-> 2, CodePage |-> 65001, FID |-> 65535, PID |-> 258] }
        Resize(h, n) == [i \in 1 .. n |-> IF i <= Len(h) THEN h[i] ELSE 0]
        HeaderOnlyInputs ==
            { Resize(h, n) :
              h \in {CraftHeader(sig, hs, NoSections) :
                        sig \in Signatures, hs \in HeaderSamples},
              n \in {0, 11, 90, 91, 92, 255, 256, 300} }
        RecLists(samples) ==
            { [i \in 1 .. n |-> samples[((r + i - 1) % Len(samples)) + 1]] :
              r \in 0 .. Len(samples) - 1, n \in 0 .. MaxEntries }
        SectionConfigs(samples) ==
            { [modulo |-> m, tail |-> t, recs |-> IF m = 0 THEN <<>> ELSE rs] :
              m \in {0, 3, 4, 5, 6}, t \in 0 .. MaxTail, rs \in RecLists(samples) }
        PlainConfigs(samples) ==
            { [modulo |-> 4, tail |-> 0, recs |-> <<>>],
              [modulo |-> 4, tail |-> 0, recs |-> <<samples[1]>>] }
        OneTruncated(recs) ==
            Cardinality({i \in 1 .. Len(recs) : recs[i].kind = "trunc"}) <= 1
        Choices(P, L, G) ==
            {c \in P \X L \X G : OneTruncated(c[1].recs \o c[2].recs \o c[3].recs)}
        SectionChoices ==
            Choices(SectionConfigs(PointSamples), PlainConfigs(LineSamples),
                    PlainConfigs(PolygonSamples))
            \cup Choices(PlainConfigs(PointSamples), SectionConfigs(LineSamples),
                         PlainConfigs(PolygonSamples))
            \cup Choices(PlainConfigs(PointSamples), PlainConfigs(LineSamples),
                         SectionConfigs(PolygonSamples))
    IN  HeaderOnlyInputs
        \cup UNION { Layout({Signature, garbled}, SectionHeader, c[1], c[2], c[3]) :
                     c \in SectionChoices }

InitParse ==
    /\ pc = "parse"
    /\ IdleType
    /\ IdleBitmap
    /\ IdleLabels
    /\ \E file \in ParseInputs : bins = <<file>>
    /\ txts = <<>>
    /\ cats = <<>>
    /\ typFile = NewTYPFile
    /\ rd = NoReader
    /\ opts = NoFlags
    /\ input = "binary"
    /\ err = ""

SpecParse == InitParse /\ [][Parse]_vars


\* The ten bytes at offset 0x02 of a file, <<>> when the file is shorter.
SigAt(file) == IF Len(file) >= 12 THEN Slice(file, 2, 12) ELSE <<>>

\* The record an index entry leads to, as ReadPointTypes, ReadLineTypes
\* and ReadPolygonTypes read it: [err, rec].
EntryRecord(section, i, field) ==
    ReadData(field, RecordAt(section, i).offset,
             RecordAt(section, i).typ, RecordAt(section, i).subtyp)

\* The records of the index entries whose record reads without error.
WellFormedRecords(section, field) ==
    LET all  == [i \in 1 .. NumEntries(section) |-> EntryRecord(section, i - 1, field)]
        good == SelectSeq(all, LAMBDA d : d.err = "")
    IN  [i \in 1 .. Len(good) |-> good[i].rec]

\* An index array of whole entries of a size the reader supports.
RegularArray(section) ==
    /\ section.ArrayModulo \in {3, 4, 5}
    /\ section.ArraySize % section.ArrayModulo = 0

\* The sections as the header of the file states them.
FileSections == HeaderFields(ReadAt(File, headerBufSize, 0).buf)

\* C6: in the catalog Parse returns, the number of points, lines and
\* polygons is floor(array-size / modulo) of the kind's index array; a
\* tail that is not a whole entry is ignored, nothing else is.
FeatureCountsMatchArrays ==
    pc = "parsed" =>
        LET h == FileSections
            Count(section, features) ==
                section.ArrayModulo # 0 =>
                    Len(features) = section.ArraySize \div section.ArrayModulo
        IN  /\ Count(h.Points, cats[1].Points)
            /\ Count(h.Polylines, cats[1].Lines)
            /\ Count(h.Polygons, cats[1].Polygons)

\* C7: a record that fails to read is dropped and nothing else: once the
\* header is accepted Parse returns a catalog, and it holds the record of
\* every index entry that is well-formed, in index order.
RecordFailureDropsOnlyRecord ==
    LET h == FileSections
    IN  /\ pc \in {"parsed", "failed"}
        /\ ReadHeader(File).err = ""
        /\ RegularArray(h.Points)
        /\ RegularArray(h.Polylines)
        /\ RegularArray(h.Polygons)
        => /\ pc = "parsed"
           /\ cats[1].Points = WellFormedRecords(h.Points, "Points")
           /\ cats[1].Lines = WellFormedRecords(h.Polylines, "Lines")
           /\ cats[1].Polygons = WellFormedRecords(h.Polygons, "Polygons")

\* A file of at least 0x5B bytes with the signature and all section sizes
\* zero.
HeaderOnly(file) ==
    /\ Len(file) >= headerSize
    /\ SigAt(file) = Signature
    /\ \A o \in {27, 35, 43, 57, 67, 77, 87} : Uint32(file, o) = 0

----------------------------------------------------------------------------
(* Specification SpecConv: the conversions chained as bin2txt and txt2bin  *)
(* chain them.  From a binary input: Parse, text Write, text Read, binary  *)
(* Write, Parse, text Write.  From a text input: text Read, binary Write,  *)
(* Parse, text Write, text Read.  Every catalog holds a 16 x 16 icon of    *)
(* 16 colours, which makes every binary file longer than headerBufSize.    *)
(* From a text input with a broken XPM block: text Read.  From a text      *)
(* input with a label line written by hand: as from any text input.        *)

MaxFiles == 4

\* The label iteration orders of every feature of a catalog.
LabelOrders(typ) ==
    LET Orders(recs) ==
            {o \in [1 .. Len(recs) ->
                      UNION {KeyOrders(recs[i].Labels) : i \in 1 .. Len(recs)}] :
                \A i \in 1 .. Len(recs) : o[i] \in KeyOrders(recs[i].Labels)}
    IN  [Points : Orders(typ.Points), Lines : Orders(typ.Lines),
         Polygons : Orders(typ.Polygons)]

\* bin2txt after Parse: text.NewWriter(out).Write(typ).
WriteTextFile ==
    /\ pc = "parsed"
    /\ Len(bins) + Len(txts) < MaxFiles
    /\ \E orders \in LabelOrders(cats[Len(cats)]) :
         \E w \in {WriteText(cats[Len(cats)], orders)} :
            IF w.err
            THEN pc' = "failed" /\ err' = "write text" /\ txts' = txts
            ELSE pc' = "text" /\ err' = err /\ txts' = Append(txts, w.lines)
    /\ UNCHANGED <<bins, cats, typFile, rd, input, opts, typeVars, bitmapVars, labelVars>>

\* txt2bin: text.NewReader(in).Read().
ReadTextFile ==
    /\ pc = "text"
    /\ \E r \in {Read(txts[Len(txts)], 1, NewTYPFile)} :
          IF r.err # ""
          THEN pc' = "failed" /\ err' = r.err /\ cats' = cats
          ELSE pc' = "read" /\ err' = err /\ cats' = Append(cats, r.typ)
    /\ UNCHANGED <<bins, txts, typFile, rd, input, opts, typeVars, bitmapVars, labelVars>>

\* txt2bin after Read: the header fields are overridden from the flags,
\* then binary.NewWriter(out).Write(typ).
WriteBinaryFile ==
    /\ pc = "read"
    /\ Len(bins) + Len(txts) < MaxFiles
    /\ cats' = [cats EXCEPT ![Len(cats)] = OverrideHeader(@, opts)]
    /\ \E orders \in LabelOrders(cats[Len(cats)]) :
         \E w \in {Write(cats'[Len(cats)], SampleNow, orders)} :
            IF w.err
            THEN pc' = "failed" /\ err' = "write binary" /\ bins' = bins
            ELSE pc' = "parse" /\ err' = err /\ bins' = Append(bins, w.bytes)
    /\ UNCHANGED <<txts, typFile, rd, input, opts, typeVars, bitmapVars, labelVars>>

Convert == Parse \/ WriteTextFile \/ ReadTextFile \/ WriteBinaryFile

\* The point with the 16 x 16 icon, the first palette entry as given:
\* type 0x30, subtype 1, as the binary reader stores them (Type holds
\* both, SubType the subtype again).
BigPoint(first) ==
    [ZeroPoint EXCEPT
       !.Type = 12289, !.SubType = 1,
       !.DayIcon =
          <<Bitmap(16, 16, "Color16",
                   [i \in 1 .. 16 |-> IF i = 1 THEN first
                                      ELSE Color(16 * i - 1, 255 - 8 * i, i, 255)],
                   [p \in 1 .. 256 |-> ((p * 7) \div 3) % 16])>>]

\* Binary inputs: the record of the big icon, then at most one more point
\* (2 x 2 icon; with a label; with a text colour block; with a night icon;
\* with two labels; with one colour and a set pixel bit; with three colours
\* and a pixel of value 3), at most one line (solid; pattern; solid with a label;
\* colour type 7, day and night colour without border) and at most one
\* polygon (one colour; day and night colour; one colour and a label); and
\* the record of the big icon with a line of one pattern row and colour
\* type 3, 5 or 7 (day, night or both with a transparent background).
ConvBinaries ==
    LET big  == Rec(encodeTypeSubtype(12289, 1), "ok",
                    writePointData(setupEncoder(1252),
                                   BigPoint(Color(255, 0, 0, 255)), <<>>).bytes)
        two  == Rec(1516, "ok", <<5, 2, 2, 2, 16, 0, 0, 255, 255, 255, 255, 96,
                                  17, 4, 65, 98, 0, 2, 67, 100, 0>>)
        bare == Rec(38, "ok", <<7, 0, 1, 2, 3, 4, 5, 6, 2>>)
        one  == Rec(1517, "ok", <<1, 2, 2, 1, 16, 0, 0, 255, 144>>)
        three == Rec(1518, "ok", <<1, 2, 2, 3, 16, 0, 0, 255, 0, 255, 0,
                                   255, 0, 0, 228>>)
        clear == {Rec(39, "ok", <<8 + c, 0>> \o [i \in 1 .. n |-> 16 * i]
                                \o <<240, 15, 240, 15>>) :
                    c \in {3, 5, 7}, n \in {6, 9} }
        Section(recs) == [modulo |-> 4, tail |-> 0, recs |-> recs]
    IN  UNION { Layout({Signature}, SectionHeader,
                       Section(<<big>>), Section(<<l>>), Section(<<>>)) :
                l \in {r \in clear : Len(r.bytes) = 6 + LinePatternBytes(r.bytes[1] % 8)} }
        \cup
        UNION { Layout({Signature}, SectionHeader,
                       Section(<<big>> \o p), Section(l), Section(g)) :
                p \in {<<>>, <<PointSamples[1]>>, <<PointSamples[2]>>,
                       <<PointSamples[4]>>, <<PointSamples[6]>>, <<two>>,
                       <<one>>, <<three>>},
                l \in {<<>>, <<LineSamples[1]>>, <<LineSamples[3]>>,
                       <<LineSamples[6]>>, <<bare>>},
                g \in {<<>>, <<PolygonSamples[1]>>, <<PolygonSamples[3]>>,
                       <<PolygonSamples[6]>>} }

\* Text inputs: what the text writer prints for small catalogs, as it is
\* and behind a comment line and a section the reader skips.  The big
\* icon's first colour is opaque or "none"; then at most one more point
\* (2 x 2 icon and a label; 2 x 2 icon and a day colour; 2 x 2 icon, type
\* 0x2f06 and no SubType line), at most one line
\* (widths with equal day and night colours; width and day colour only;
\* a one-row pattern; a one-row pattern on a transparent ground), at most
\* one polygon (equal day and night colour; day colour only; a 32 x 32
\* pattern with a label; a 32 x 32 pattern on a transparent ground).  Four
\* more texts hold a line with a day and a night pattern of different
\* colours, each on an opaque or a transparent ground.
ConvTexts ==
    LET small == Bitmap(2, 2, "Monochrome",
                        <<Color(0, 0, 255, 255), Color(255, 255, 255, 255)>>,
                        <<1, 0, 0, 1>>)
        ink   == Color(16, 32, 48, 255)
        edge  == Color(64, 80, 96, 255)
        name  == [k \in {Sprintf02x(4)} |-> <<84, 114>>]
        row   == Bitmap(32, 1, "Monochrome", <<ink, edge>>,
                        [p \in 1 .. 32 |-> (p \div 4) % 2])
        fill  == Bitmap(32, 32, "Monochrome", <<ink, edge>>,
                        [p \in 1 .. 1024 |-> (p + (p - 1) \div 32) % 2])
        clear == Bitmap(32, 1, "Monochrome", <<ZeroColor, edge>>,
                        [p \in 1 .. 32 |-> (p \div 2) % 2])
        net   == Bitmap(32, 32, "Monochrome", <<ZeroColor, ink>>,
                        [p \in 1 .. 1024 |-> IF p % 4 = 0 THEN 1 ELSE 0])
        catalogs ==
            { [Header |-> SectionHeader, Points |-> <<BigPoint(c)>> \o p,
               Lines |-> l, Polygons |-> g] :
              c \in {Color(255, 0, 0, 255), ZeroColor},
              p \in { <<>>,
                      <<[ZeroPoint EXCEPT !.Type = 25601, !.SubType = 1,
                                          !.Labels = name,
                                          !.DayIcon = <<small>>]>>,
                      <<[ZeroPoint EXCEPT !.Type = 25858, !.SubType = 2,
                                          !.DayColor = ink,
                                          !.DayIcon = <<small>>]>>,
                      <<[ZeroPoint EXCEPT !.Type = 12038,
                                          !.DayIcon = <<small>>]>> },
              l \in { <<>>,
                      <<[ZeroLine EXCEPT !.Type = 256, !.LineWidth = 3,
                                         !.BorderWidth = 1,
                                         !.DayColor = ink, !.NightColor = ink,
                                         !.DayBorderColor = edge,
                                         !.NightBorderColor = edge]>>,
                      <<[ZeroLine EXCEPT !.Type = 512, !.LineWidth = 2,
                                         !.DayColor = ink]>>,
                      <<[ZeroLine EXCEPT !.Type = 768, !.DayPattern = <<row>>]>>,
                      <<[ZeroLine EXCEPT !.Type = 1024, !.DayPattern = <<clear>>]>> },
              g \in { <<>>,
                      <<[ZeroPolygon EXCEPT !.Type = 1024, !.DayColor = ink,
                                            !.NightColor = ink]>>,
                      <<[ZeroPolygon EXCEPT !.Type = 1280, !.DayColor = ink]>>,
                      <<[ZeroPolygon EXCEPT !.Type = 1536, !.Labels = name,
                                            !.DayPattern = <<fill>>]>>,
                      <<[ZeroPolygon EXCEPT !.Type = 1792,
                                            !.DayPattern = <<net>>]>> } }
        skipped == <<Line("#", <<>>), Line("[_drawOrder]", <<>>),
                     Line("Type", <<48, 120, 48, 49, 44, 49>>),
                     Line("[end]", <<>>)>>
        dark  == Bitmap(32, 1, "Monochrome", <<edge, ink>>,
                        [p \in 1 .. 32 |-> (p \div 2) % 2])
        faint == Bitmap(32, 1, "Monochrome", <<ZeroColor, ink>>,
                        [p \in 1 .. 32 |-> (p \div 2) % 2])
        paired ==
            { [Header |-> SectionHeader,
               Points |-> <<BigPoint(Color(255, 0, 0, 255))>>,
               Lines |-> <<[ZeroLine EXCEPT !.Type = 1280, !.Labels = name,
                                            !.DayPattern = <<d>>,
                                            !.NightPattern = <<n>>]>>,
               Polygons |-> <<>>] :
              d \in {row, clear}, n \in {dark, faint} }
    IN  UNION { { pre \o WriteText(typ, o).lines :
                  pre \in {<<>>, skipped}, o \in LabelOrders(typ) } :
                typ \in catalogs }
        \cup { WriteText(typ, CHOOSE o \in LabelOrders(typ) : TRUE).lines :
                  typ \in paired }

\* Text inputs with an XPM block that cannot be built: the text of a
\* point with a 2 x 2 icon and a label, a line and a polygon, with the
\* icon's last pixel line taken out, or cut to one character, or with
\* every line of the block after the DayXpm line taken out.
BrokenTexts ==
    LET small == Bitmap(2, 2, "Monochrome",
                        <<Color(0, 0, 255, 255), Color(255, 255, 255, 255)>>,
                        <<1, 0, 0, 1>>)
        ink   == Color(16, 32, 48, 255)
        typ   == [Header   |-> SectionHeader,
                  Points   |-> <<[ZeroPoint EXCEPT
                                    !.Type = 25601, !.SubType = 1,
                                    !.Labels = [k \in {Sprintf02x(4)} |-> <<84, 114>>],
                                    !.DayIcon = <<small>>]>>,
                  Lines    |-> <<[ZeroLine EXCEPT !.Type = 256, !.LineWidth = 3,
                                                  !.DayColor = ink,
                                                  !.NightColor = ink]>>,
                  Polygons |-> <<[ZeroPolygon EXCEPT !.Type = 1024,
                                                     !.DayColor = ink,
                                                     !.NightColor = ink]>>]
        Without(lines, from, to) ==
            SubSeq(lines, 1, from - 1) \o SubSeq(lines, to + 1, Len(lines))
        Broken(lines, tag) ==
            { Without(lines, tag + 4, tag + 4),
              [lines EXCEPT ![tag + 4].value = SubSeq(@, 1, 1)],
              Without(lines, tag + 1, tag + 4) }
        Break(lines) ==
            Broken(lines, CHOOSE i \in 1 .. Len(lines) : lines[i].key = "DayXpm")
    IN  UNION { Break(WriteText(typ, o).lines) : o \in LabelOrders(typ) }

\* Text inputs whose label line was written by hand: the text of a point
\* with one label, a line and a polygon, with the value of the String1
\* line replaced by "0x4,Tr", "0x04,", "4A,Tr" or "0X4A,Tr".
EditedTexts ==
    LET ink   == Color(16, 32, 48, 255)
        typ   == [Header   |-> SectionHeader,
                  Points   |-> <<[ZeroPoint EXCEPT
                                    !.Type = 25601, !.SubType = 1,
                                    !.Labels = [k \in {Sprintf02x(4)} |-> <<84, 114>>],
                                    !.DayColor = ink]>>,
                  Lines    |-> <<[ZeroLine EXCEPT !.Type = 256, !.LineWidth = 3,
                                                  !.DayColor = ink,
                                                  !.NightColor = ink]>>,
                  Polygons |-> <<[ZeroPolygon EXCEPT !.Type = 1024,
                                                     !.DayColor = ink,
                                                     !.NightColor = ink]>>]
        lines == WriteText(typ, CHOOSE o \in LabelOrders(typ) : TRUE).lines
        tag   == CHOOSE i \in 1 .. Len(lines) : lines[i].key = "String1"
    IN  { [lines EXCEPT ![tag].value = v] :
            v \in { <<48, 120, 52, 44, 84, 114>>,
                    <<48, 120, 48, 52, 44>>,
                    <<52, 65, 44, 84, 114>>,
                    <<48, 88, 52, 65, 44, 84, 114>> } }

InitConv ==
    /\ IdleType
    /\ IdleBitmap
    /\ IdleLabels
    /\ cats = <<>>
    /\ typFile = NewTYPFile
    /\ rd = NoReader
    /\ opts = NoFlags
    /\ err = ""
    /\ \/ /\ input = "binary"
          /\ pc = "parse"
          /\ txts = <<>>
          /\ \E file \in ConvBinaries : bins = <<file>>
       \/ /\ input = "text"
          /\ pc = "text"
          /\ bins = <<>>
          /\ \E lines \in ConvTexts : txts = <<lines>>
       \/ /\ input = "broken"
          /\ pc = "text"
          /\ bins = <<>>
          /\ \E lines \in BrokenTexts : txts = <<lines>>
       \/ /\ input = "edited"
          /\ pc = "text"
          /\ bins = <<>>
          /\ \E lines \in EditedTexts : txts = <<lines>>

SpecConv == InitConv /\ [][Convert]_vars

\* C4: when the run started from a binary input, no conversion of the
\* chain fails, and the text written after the round through text and
\* binary (T3) is the text written first (T1).
TextStableThroughBinary ==
    input = "binary" =>
        /\ pc # "failed"
        /\ Len(txts) >= 2 => txts[2] = txts[1]

\* C5: when the run started from a text input, no conversion of the chain
\* fails; the catalog parsed from the written binary has the header fields
\* of the text, and per feature the type, subtype, labels, colours, widths
\* and bitmaps (size, palette with its alpha, pixels) of the catalog read
\* from the text; and the text written from it is a text written from
\* that catalog.
CatalogSurvivesBinary ==
    LET SameBitmap(x, y) ==
            /\ Len(x) = Len(y)
            /\ x # <<>> => /\ x[1].Width = y[1].Width
                           /\ x[1].Height = y[1].Height
                           /\ x[1].Palette = y[1].Palette
                           /\ x[1].Data = y[1].Data
        \* A night pattern that is the day pattern's pointer is no bitmap
        \* of its own.
        Own(r, night) ==
            IF "NightIsDay" \in DOMAIN r /\ r.NightIsDay THEN <<>> ELSE r[night]
        Same(xs, ys, fields, day, night) ==
            /\ Len(xs) = Len(ys)
            /\ \A i \in 1 .. Len(xs) :
                  /\ \A f \in fields : xs[i][f] = ys[i][f]
                  /\ SameBitmap(xs[i][day], ys[i][day])
                  /\ SameBitmap(Own(xs[i], night), Own(ys[i], night))
        common == {"Type", "SubType", "Labels", "DayColor", "NightColor"}
        SameCatalog(a, b) ==
            /\ \A f \in {"CodePage", "FID", "PID"} : a.Header[f] = b.Header[f]
            /\ Same(a.Points, b.Points, common, "DayIcon", "NightIcon")
            /\ Same(a.Lines, b.Lines,
                    common \cup {"LineWidth", "BorderWidth", "DayBorderColor",
                                 "NightBorderColor"},
                    "DayPattern", "NightPattern")
            /\ Same(a.Polygons, b.Polygons, common, "DayPattern", "NightPattern")
    IN  input = "text" =>
            /\ pc # "failed"
            /\ Len(cats) >= 2 => SameCatalog(cats[1], cats[2])
            /\ Len(txts) >= 2 =>
                  \E o \in LabelOrders(cats[1]) : txts[2] = WriteText(cats[1], o).lines

\* The binary files of the run that Writer.Write produced, every file but
\* the input, each with the catalog it was written from: the one read from
\* the text just before.
Written ==
    LET Source(k) == IF input = "binary" THEN 2 * k - 2 ELSE 2 * k - 1
    IN  {[file |-> bins[k], typ |-> cats[Source(k)]] :
            k \in (IF input = "binary" THEN 2 ELSE 1) .. Len(bins)}

\* C11: in every file the binary writer produced, each section that has
\* index entries declares modulo 3 when its largest record offset is below
\* 256, modulo 4 when it is below 65536 and modulo 5 otherwise.  The
\* offsets are read from the four-byte entries writeArrayEntry appends.
NarrowestModulo ==
    \A w \in Written :
        LET h == HeaderFields(ReadAt(w.file, headerBufSize, 0).buf)
            Offsets(s) ==
                {readArrayEntry(w.file, s.ArrayOffset + 4 * (i - 1), 4).dataOffset :
                    i \in 1 .. s.ArraySize \div 4}
            Largest(S) == CHOOSE x \in S : \A y \in S : y <= x
            Narrowest(m) == IF m < 256 THEN 3 ELSE IF m < 65536 THEN 4 ELSE 5
        IN  \A f \in {"Points", "Polylines", "Polygons"} :
                h[f].ArraySize > 0 =>
                    h[f].ArrayModulo = Narrowest(Largest(Offsets(h[f])))

\* C12: when the binary writer has just run, every file it produced is
\* the 0x5B header bytes, the points, lines, polygons and order index arrays and the points,
\* lines and polygons data, one after the other and nothing else; each
\* offset field read from the header is the position where that section's
\* bytes start, and each size field is their number.
WrittenLayout ==
    LET Laid(file, s) ==
            LET h == HeaderFields(ReadAt(file, headerBufSize, 0).buf)
                At(off, size, bytes) ==
                    /\ size = Len(bytes)
                    /\ off + size <= Len(file)
                    /\ Slice(file, off, off + size) = bytes
            IN  /\ ~s.points.err /\ ~s.polylines.err /\ ~s.polygons.err
                /\ h.Points.ArrayOffset = 91
                /\ At(h.Points.ArrayOffset, h.Points.ArraySize, s.points.array)
                /\ h.Polylines.ArrayOffset
                       = h.Points.ArrayOffset + h.Points.ArraySize
                /\ At(h.Polylines.ArrayOffset, h.Polylines.ArraySize,
                      s.polylines.array)
                /\ h.Polygons.ArrayOffset
                       = h.Polylines.ArrayOffset + h.Polylines.ArraySize
                /\ At(h.Polygons.ArrayOffset, h.Polygons.ArraySize,
                      s.polygons.array)
                /\ h.Order.ArrayOffset
                       = h.Polygons.ArrayOffset + h.Polygons.ArraySize
                /\ h.Order.ArraySize = 0
                /\ h.Points.DataOffset = h.Order.ArrayOffset + h.Order.ArraySize
                /\ At(h.Points.DataOffset, h.Points.DataLength, s.points.data)
                /\ h.Polylines.DataOffset
                       = h.Points.DataOffset + h.Points.DataLength
                /\ At(h.Polylines.DataOffset, h.Polylines.DataLength,
                      s.polylines.data)
                /\ h.Polygons.DataOffset
                       = h.Polylines.DataOffset + h.Polylines.DataLength
                /\ At(h.Polygons.DataOffset, h.Polygons.DataLength,
                      s.polygons.data)
                /\ Len(file) = h.Polygons.DataOffset + h.Polygons.DataLength
    IN  pc = "parse" =>
            \A w \in Written :
                \E orders \in LabelOrders(w.typ) :
                    Laid(w.file, WriteSections(w.typ, orders))

\* A file has just been written from a catalog with two points, a line and
\* a polygon.
WrittenLayoutWitness ==
    /\ input = "text"
    /\ pc = "parse"
    /\ Len(bins) = 1
    /\ Len(cats[1].Points) = 2
    /\ Len(cats[1].Lines) = 1
    /\ Len(cats[1].Polygons) = 1
    /\ Len(bins[1]) > 91 + 16

\* C13: in every file the binary writer produced, the colour type stored
\* in each line and polygon record is the one the rule gives for the
\* feature it was written from.  Without patterns: 0 (lines) or 6
\* (polygons) when the day and night colours are the same, 1 or 7 when
\* they differ.  With a pattern whose palette[0] has alpha 0: 3 or 11 when
\* only the day palette has it, 5 or 13 when only the night palette has
\* it, 6 or 7 (lines) or 14 (polygons) when both have it, a feature with
\* one pattern using it by day and by night.  With opaque patterns: 0 or 8
\* for one palette, 1 or 9 for two different ones.
ColorTypeRule ==
    LET Clear(p) == /\ p # <<>>
                    /\ Len(p[1].Palette) > 0
                    /\ p[1].Palette[1].Alpha = 0
        Rule(r, solidSame, codes) ==
            LET day   == IF r.DayPattern # <<>> THEN r.DayPattern ELSE r.NightPattern
                night == IF r.NightPattern # <<>> THEN r.NightPattern ELSE r.DayPattern
            IN  IF r.DayPattern = <<>> /\ r.NightPattern = <<>>
                THEN (IF solidSame THEN codes.solid ELSE codes.solids)
                ELSE IF Clear(day) /\ Clear(night) THEN codes.both
                ELSE IF Clear(day) THEN codes.day
                ELSE IF Clear(night) THEN codes.night
                ELSE IF day[1].Palette = night[1].Palette THEN codes.same
                ELSE codes.separate
        First(file, s, i) ==
            file[s.DataOffset
                 + readArrayEntry(file, s.ArrayOffset + 4 * (i - 1), 4).dataOffset + 1]
        Chosen(w, h) ==
            /\ \A i \in 1 .. Len(w.typ.Lines) :
                  First(w.file, h.Polylines, i) % 8
                     \in Rule(w.typ.Lines[i],
                              /\ w.typ.Lines[i].DayColor = w.typ.Lines[i].NightColor
                              /\ w.typ.Lines[i].DayBorderColor
                                    = w.typ.Lines[i].NightBorderColor,
                              [solid |-> {0}, solids |-> {1},
                               same |-> {0}, separate |-> {1}, day |-> {3},
                               night |-> {5}, both |-> {6, 7}])
            /\ \A i \in 1 .. Len(w.typ.Polygons) :
                  First(w.file, h.Polygons, i) % 16
                     \in Rule(w.typ.Polygons[i],
                              w.typ.Polygons[i].DayColor = w.typ.Polygons[i].NightColor,
                              [solid |-> {6}, solids |-> {7},
                               same |-> {8}, separate |-> {9}, day |-> {11},
                               night |-> {13}, both |-> {14}])
    IN  \A w \in Written :
            Chosen(w, HeaderFields(ReadAt(w.file, headerBufSize, 0).buf))

----------------------------------------------------------------------------
(* Specification SpecXpm: the text writer on catalogs of one point whose   *)
(* icon has a palette of 1 to 300 colours.                                 *)

\* The icons: 1 x 1, 2 x 1 and 2 x 2 pixels of the first and the last
\* palette index, the palette sizes around the limits of the code sets.
InitXpm ==
    /\ IdleType
    /\ IdleBitmap
    /\ IdleLabels
    /\ input = "catalog"
    /\ pc = "parsed"
    /\ bins = <<>>
    /\ txts = <<>>
    /\ typFile = NewTYPFile
    /\ rd = NoReader
    /\ opts = NoFlags
    /\ err = ""
    /\ \E n \in {1, 2, 93, 94, 95, 255, 256, 300}, size \in {<<1, 1>>, <<2, 1>>, <<2, 2>>} :
          \E data \in [1 .. size[1] * size[2] -> {0, n - 1}] :
             cats = <<[Header   |-> SectionHeader,
                       Points   |-> <<[ZeroPoint EXCEPT
                                         !.Type = 25601, !.SubType = 1,
                                         !.DayIcon =
                                            <<Bitmap(size[1], size[2], "TrueColor",
                                                     [i \in 1 .. n |->
                                                        Color(i % 256, (7 * i) % 256,
                                                              255 - (i % 256), 255)],
                                                     data)>>]>>,
                       Lines    |-> <<>>,
                       Polygons |-> <<>>]>>

SpecXpm == InitXpm /\ [][WriteTextFile]_vars

\* C16: for a palette of more than 255 colours the text writer fails; for
\* one of at most 94 colours the XPM header says one character per pixel,
\* for one of 95 to 255 colours two; each palette line starts with a code
\* of that many characters and a space, no two palette lines have the same
\* code, and each pixel line has that many characters per pixel.
XpmCodeWidth ==
    LET bm    == cats[1].Points[1].DayIcon[1]
        n     == Len(bm.Palette)
        lines == txts[1]
        tag   == CHOOSE i \in 1 .. Len(lines) : lines[i].key = "DayXpm"
        cpp   == lines[tag].value[Len(lines[tag].value) - 1] - 48
        Code(j) == SubSeq(lines[tag + j].value, 1, cpp)
    IN  input = "catalog" /\ pc # "parsed" =>
            IF n > 255 THEN err = "write text" /\ txts = <<>>
            ELSE /\ err # "write text"
                 /\ Len(txts) = 1
                 /\ cpp = (IF n <= 94 THEN 1 ELSE 2)
                 /\ \A j \in 1 .. n :
                       /\ Len(lines[tag + j].value) > cpp
                       /\ lines[tag + j].value[cpp + 1] = 32
                       /\ 32 \notin {Code(j)[k] : k \in 1 .. cpp}
                 /\ \A j, k \in 1 .. n : j # k => Code(j) # Code(k)
                 /\ \A y \in 1 .. bm.Height :
                       Len(lines[tag + n + y].value) = bm.Width * cpp

\* C17: once the text reader has run on a text whose icon cannot be built,
\* it has returned a catalog: the point is in it with its type, subtype
\* and label and without an icon, and the line and the polygon that follow
\* it are in it too.
XpmFailureDropsOnlyBitmap ==
    input = "broken" /\ pc # "text" =>
        /\ err = ""
        /\ Len(cats) >= 1
        /\ Len(cats[1].Points) = 1
        /\ cats[1].Points[1].Type = 25601
        /\ cats[1].Points[1].SubType = 1
        /\ cats[1].Points[1].Labels = [k \in {Sprintf02x(4)} |-> <<84, 114>>]
        /\ cats[1].Points[1].DayIcon = <<>>
        /\ Len(cats[1].Lines) = 1
        /\ cats[1].Lines[1].Type = 256
        /\ Len(cats[1].Polygons) = 1
        /\ cats[1].Polygons[1].Type = 1024

\* C18: in every catalog a reader has returned, every key of every label
\* map is two lowercase hexadecimal digits, and no label is the empty
\* string.
LabelKeysTwoHexDigits ==
    LET Hex == (48 .. 57) \cup (97 .. 102)
        Kept(m) == \A k \in DOMAIN m :
                       /\ Len(k) = 2
                       /\ k[1] \in Hex
                       /\ k[2] \in Hex
                       /\ m[k] # <<>>
        All(recs) == \A i \in 1 .. Len(recs) : Kept(recs[i].Labels)
    IN  \A c \in 1 .. Len(cats) :
            All(cats[c].Points) /\ All(cats[c].Lines) /\ All(cats[c].Polygons)

\* C19: in every bitmap of every catalog a reader has returned, the pixel
\* plane has width * height entries and every pixel index is smaller than
\* the length of the palette.
PixelsWithinPalette ==
    LET Sound(b) == /\ Len(b.Data) = b.Width * b.Height
                    /\ \A p \in 1 .. Len(b.Data) : b.Data[p] < Len(b.Palette)
        Each(opt) == \A k \in 1 .. Len(opt) : Sound(opt[k])
        Points(recs) == \A i \in 1 .. Len(recs) :
                            Each(recs[i].DayIcon) /\ Each(recs[i].NightIcon)
        Filled(recs) == \A i \in 1 .. Len(recs) :
                            Each(recs[i].DayPattern) /\ Each(recs[i].NightPattern)
    IN  \A c \in 1 .. Len(cats) :
            /\ Points(cats[c].Points)
            /\ Filled(cats[c].Lines)
            /\ Filled(cats[c].Polygons)

\* The files of the run, each with the catalog on its other side: the
\* binary files and the catalogs parsed from them, the text files and the
\* catalogs they were written from, the text files and the catalogs read
\* from them.  (Written pairs the binary files with the catalogs they were
\* written from.)
Parsed ==
    LET Result(k) == IF input = "binary" THEN 2 * k - 1 ELSE 2 * k
    IN  {[file |-> bins[k], typ |-> cats[Result(k)]] :
            k \in {j \in 1 .. Len(bins) : Result(j) <= Len(cats)}}

TextWritten ==
    LET Source(k) == IF input = "binary" THEN 2 * k - 1 ELSE 2 * k - 2
    IN  {[lines |-> txts[k], typ |-> cats[Source(k)]] :
            k \in (IF input = "binary" THEN 1 ELSE 2) .. Len(txts)}

TextRead ==
    LET Result(k) == IF input = "binary" THEN 2 * k ELSE 2 * k - 1
    IN  {[lines |-> txts[k], typ |-> cats[Result(k)]] :
            k \in {j \in 1 .. Len(txts) : Result(j) <= Len(cats)}}

----------------------------------------------------------------------------
(* Specification SpecTxt2Bin: txt2bin with flags.  The text of a catalog   *)
(* with one point is read, the header is overridden from the flags and     *)
(* the binary file is written.                                             *)

\* The text has CodePage 1250, 1252 or 65001 or no CodePage line, FID 3511
\* and ProductCode 1.  --codepage is absent or passed as 0, 1250, 1252 or
\* 65001, --fid is absent or passed as 0 or 77, --pid is absent or passed
\* as 2.
InitTxt2Bin ==
    /\ IdleType
    /\ IdleBitmap
    /\ IdleLabels
    /\ input = "text"
    /\ pc = "text"
    /\ bins = <<>>
    /\ cats = <<>>
    /\ typFile = NewTYPFile
    /\ rd = NoReader
    /\ err = ""
    /\ \E cp \in {0, 1250, 1252, 65001} :
          \E typ \in {[Header   |-> [SectionHeader EXCEPT !.CodePage = cp],
                       Points   |-> <<[ZeroPoint EXCEPT
                                         !.Type = 25601, !.SubType = 1,
                                         !.Labels = [k \in {Sprintf02x(4)} |-> <<84, 114>>],
                                         !.DayColor = Color(16, 32, 48, 255)]>>,
                       Lines    |-> <<>>,
                       Polygons |-> <<>>]} :
             txts = <<WriteText(typ, CHOOSE o \in LabelOrders(typ) : TRUE).lines>>
    /\ opts \in [fid      : {Flag(FALSE, 0), Flag(TRUE, 0), Flag(TRUE, 77)},
                 pid      : {Flag(FALSE, 0), Flag(TRUE, 2)},
                 codepage : {Flag(FALSE, 1252)}
                            \cup {Flag(TRUE, v) : v \in {0, 1250, 1252, 65001}}]

NextTxt2Bin == ReadTextFile \/ WriteBinaryFile

SpecTxt2Bin == InitTxt2Bin /\ [][NextTxt2Bin]_vars

\* C22: the CodePage in the header of the binary file txt2bin has written
\* is the value of --codepage when the flag was passed, and the CodePage of
\* the text's [_id] section when the flag was not passed and the section
\* has one.
CodepageFlagReplaces ==
    LET pages == {i \in 1 .. Len(txts[1]) : txts[1][i].key = "CodePage"}
        page  == ParseInt(TrimSpace(txts[1][CHOOSE i \in pages : TRUE].value), 10).v
        h     == HeaderFields(ReadAt(bins[1], headerBufSize, 0).buf)
    IN  pc = "parse" =>
            /\ opts.codepage.changed => h.CodePage = opts.codepage.value
            /\ ~opts.codepage.changed /\ pages # {} => h.CodePage = page

\* C25: for every line and polygon of a catalog written to a binary file,
\* the colour type the writer selects is one the reader accepts, and the
\* reader, reading the record from the file, meets no error and finds the
\* feature's labels after the colour data.
RecordsAgree ==
    LET Index(file, s) ==
            [k \in 1 .. s.ArraySize \div s.ArrayModulo |->
                readArrayEntry(file, s.ArrayOffset + s.ArrayModulo * (k - 1),
                               s.ArrayModulo)]
        Agree(recs, k, r) == r.err = "" /\ r.rec.Labels = recs[k].Labels
        Lockstep(file, typ, h, cm) ==
            /\ \A k \in 1 .. Len(typ.Lines) :
                  /\ determineLineColorType(typ.Lines[k]) \in LineColorTypes
                  /\ Agree(typ.Lines, k,
                           readPolylineData(cm, file,
                               h.Polylines.DataOffset
                                   + Index(file, h.Polylines)[k].dataOffset,
                               typ.Lines[k].Type, typ.Lines[k].SubType))
            /\ \A k \in 1 .. Len(typ.Polygons) :
                  /\ determinePolygonColorType(typ.Polygons[k]) \in PolygonColorTypes
                  /\ Agree(typ.Polygons, k,
                           readPolygonData(cm, file,
                               h.Polygons.DataOffset
                                   + Index(file, h.Polygons)[k].dataOffset,
                               typ.Polygons[k].Type, typ.Polygons[k].SubType))
    IN  \A w \in Written :
            Lockstep(w.file, w.typ,
                     HeaderFields(ReadAt(w.file, headerBufSize, 0).buf),
                     HeaderDecoder(w.typ.Header.CodePage))

----------------------------------------------------------------------------
(* Specification SpecIndex: the index array of one index.  The writer    *)
(* appends one entry per record, Write chooses the modulo the header       *)
(* declares, and the reader reads the entries back with that modulo.       *)

\* The records of a section: at most MaxEntries of them, each with a type
\* code (0x100 or 0x2f06) and the number of bytes its record writer put
\* into the data buffer: 9, 300, 40000 or 65100 (a 255 x 255 icon at 8 bits
\* per pixel is 65025 bytes of pixels).
RecordSizes == {9, 300, 40000, 65100}

InitIndex ==
    /\ pc = "index"
    /\ t16 = 0 /\ tdec = NoType /\ tenc = 0 - 1 /\ feature = NoType
    /\ \E n \in 1 .. MaxEntries :
          \E recs \in [1 .. n -> [Type : {256, 12038}, SubType : {0},
                                  size : RecordSizes]] :
              index = [NoSection EXCEPT !.recs = recs]
    /\ IdleBitmap
    /\ IdleLabels
    /\ IdleConv

\* writePointTypes (writeLineTypes, writePolygonTypes), one turn of the
\* loop: the entry holds the type word and the length of the data buffer
\* before the record is appended to it.
WriteEntry ==
    /\ pc = "index"
    /\ Len(index.array) < 4 * Len(index.recs)
    /\ LET rec == index.recs[Len(index.array) \div 4 + 1]
       IN  index' = [index EXCEPT
               !.array = @ \o writeArrayEntry(
                                  encodeTypeSubtype(rec.Type, rec.SubType),
                                  index.size),
               !.size  = @ + rec.size]
    /\ UNCHANGED <<pc, t16, tdec, tenc, feature, bitmapVars, labelVars, convVars>>

\* Writer.Write: the modulo written into the header of the index.
WriteModulo ==
    /\ pc = "index"
    /\ Len(index.array) = 4 * Len(index.recs)
    /\ index' = [index EXCEPT !.modulo = IF index.size > 65535 THEN 5 ELSE 4]
    /\ pc' = "indexed"
    /\ UNCHANGED <<t16, tdec, tenc, feature, bitmapVars, labelVars, convVars>>

\* Reader.readArrayEntry on the next entry, with the modulo of the header.
ReadIndexEntry ==
    /\ pc = "indexed"
    /\ Len(index.read) < Len(index.recs)
    /\ index' = [index EXCEPT
           !.read = Append(@, readArrayEntry(index.array,
                                             index.modulo * Len(index.read),
                                             index.modulo))]
    /\ UNCHANGED <<pc, t16, tdec, tenc, feature, bitmapVars, labelVars, convVars>>

NextIndex == WriteEntry \/ WriteModulo \/ ReadIndexEntry

SpecIndex == InitIndex /\ [][NextIndex]_vars

\* C26: entry k of a written index array, read with the modulo the header
\* declares, holds the type word of record k and the offset at which
\* record k starts in the index's data, also when the data is longer
\* than 65535 bytes.
IndexEntriesLocate ==
    LET RECURSIVE Start(_)
        Start(k) == IF k = 1 THEN 0
                    ELSE Start(k - 1) + index.recs[k - 1].size
    IN  \A k \in 1 .. Len(index.read) :
            /\ index.read[k].err = ""
            /\ index.read[k].typeCode =
                   encodeTypeSubtype(index.recs[k].Type, index.recs[k].SubType)
            /\ index.read[k].dataOffset = Start(k)

\* C27: the writers are deterministic.  Whatever order the iteration over a
\* feature's label map takes, writing the catalog a text was written from
\* gives that text again, and writing the catalog a binary file was written
\* from, with the same timestamp, gives that file again; also for a feature
\* with two labels.
WritersDeterministic ==
    /\ \A w \in TextWritten :
          \A o \in LabelOrders(w.typ) : WriteText(w.typ, o).lines = w.lines
    /\ \A w \in Written :
          \A o \in LabelOrders(w.typ) : Write(w.typ, SampleNow, o).bytes = w.file

\* C28: a palette entry is written to the text as "none" exactly when its
\* alpha is 0: in the catalog read from a written text, every icon and
\* pattern that is also in the catalog the text was written from has alpha 0
\* in the same palette entries, the transparent slot the binary reader puts
\* first in the palette of a line or polygon pattern included.
TransparentSlotKept ==
    LET Same(p, q) ==
            p # <<>> /\ q # <<>> /\ Len(p[1].Palette) = Len(q[1].Palette) =>
                \A i \in 1 .. Len(p[1].Palette) :
                    p[1].Palette[i].Alpha = 0 <=> q[1].Palette[i].Alpha = 0
        Kept(a, b) ==
            /\ \A k \in 1 .. Len(a.Points) :
                  k <= Len(b.Points) =>
                      /\ Same(a.Points[k].DayIcon, b.Points[k].DayIcon)
                      /\ Same(a.Points[k].NightIcon, b.Points[k].NightIcon)
            /\ \A k \in 1 .. Len(a.Lines) :
                  k <= Len(b.Lines) =>
                      /\ Same(a.Lines[k].DayPattern, b.Lines[k].DayPattern)
                      /\ Same(a.Lines[k].NightPattern, b.Lines[k].NightPattern)
            /\ \A k \in 1 .. Len(a.Polygons) :
                  k <= Len(b.Polygons) =>
                      /\ Same(a.Polygons[k].DayPattern, b.Polygons[k].DayPattern)
                      /\ Same(a.Polygons[k].NightPattern, b.Polygons[k].NightPattern)
    IN  \A w \in TextWritten : \A r \in TextRead :
            w.lines = r.lines => Kept(w.typ, r.typ)

----------------------------------------------------------------------------
(* Specification SpecPoint: one point record.  The binary writer builds    *)
(* the record of a point with an icon, the binary reader reads the record  *)
(* back from a file that holds only it.                                    *)

\* The dimensions and palette lengths of the icons: both ends of the byte
\* range, the steps of the bits-per-pixel ladder, and sizes whose record
\* is shorter and longer than recordBufSize.
IconSizes == {<<1, 1>>, <<16, 16>>, <<64, 64>>, <<70, 70>>,
              <<255, 1>>, <<256, 1>>, <<1, 256>>}
IconColors == {1, 2, 4, 5, 16, 17, 255, 256}

\* Points of type 0x6401 with such a day icon (pixel p holds p modulo the
\* palette length), at most one label, and with or without a night icon of
\* the same size and palette length.
InitPoint ==
    /\ pc = "point"
    /\ bmp = [width |-> 0, height |-> 0, bpp |-> 1, data |-> <<>>, pos |-> 0]
    /\ packed = [err |-> FALSE, bytes |-> <<>>]
    /\ unpacked = [err |-> FALSE, data |-> <<>>, n |-> 0]
    /\ \E size \in IconSizes, n \in IconColors, night \in BOOLEAN,
          lm \in {<<>>, [k \in {Sprintf02x(4)} |-> <<84, 114>>]} :
          LET day  == Bitmap(size[1], size[2], IconColorMode(calculateBPP(n)),
                             [i \in 1 .. n |-> Color(i % 256, 128, 0, 255)],
                             [p \in 1 .. size[1] * size[2] |-> p % n])
              dark == Bitmap(size[1], size[2], IconColorMode(calculateBPP(n)),
                             [i \in 1 .. n |-> Color(0, i % 256, 255, 255)],
                             [p \in 1 .. size[1] * size[2] |-> (p + 1) % n])
          IN  icon = [NoIcon EXCEPT !.pt =
                         [ZeroPoint EXCEPT !.Type = 25601, !.SubType = 1,
                                           !.Labels = lm,
                                           !.DayIcon = <<day>>,
                                           !.NightIcon = IF night THEN <<dark>>
                                                         ELSE <<>>]]
    /\ IdleType
    /\ IdleLabels
    /\ IdleConv

\* Writer.writePointData
WritePoint ==
    /\ pc = "point"
    /\ \E order \in KeyOrders(icon.pt.Labels) :
          icon' = [icon EXCEPT !.rec = writePointData(setupEncoder(1252),
                                                      icon.pt, order)]
    /\ pc' = "pointwritten"
    /\ UNCHANGED <<typeVars, bmp, packed, unpacked, labelVars, convVars>>

\* Reader.readPointData on the record the writer returned.
ReadPoint ==
    /\ pc = "pointwritten"
    /\ ~icon.rec.err
    /\ icon' = [icon EXCEPT !.read = readPointData(HeaderDecoder(1252),
                                                   icon.rec.bytes, 0,
                                                   icon.pt.Type, icon.pt.SubType)]
    /\ pc' = "pointread"
    /\ UNCHANGED <<typeVars, bmp, packed, unpacked, labelVars, convVars>>

NextPoint == WritePoint \/ ReadPoint

SpecPoint == InitPoint /\ [][NextPoint]_vars

\* The width, height and palette-size bytes of the written record are the
\* icon's dimensions and palette length.
HeaderBytesExact ==
    /\ icon.rec.bytes[2] = icon.pt.DayIcon[1].Width
    /\ icon.rec.bytes[3] = icon.pt.DayIcon[1].Height
    /\ icon.rec.bytes[4] = Len(icon.pt.DayIcon[1].Palette)

\* C29: for an icon of 1 to 256 colours, at most 256 wide and high, the
\* record is written, its width, height and palette-size bytes are the
\* icon's, and the bits per pixel the reader derives from the palette-size
\* byte are those the writer packed the pixels with.
PointHeaderBytes ==
    pc \in {"pointwritten", "pointread"} =>
        /\ ~icon.rec.err
        /\ HeaderBytesExact
        /\ calculateBPP(icon.rec.bytes[4])
               = calculateBPP(Len(icon.pt.DayIcon[1].Palette))

\* C30: a written record whose header bytes are exact is read without an
\* error and gives the icons and labels of the point, whatever its length.
LongPointRecordRead ==
    pc = "pointread" /\ HeaderBytesExact =>
        /\ icon.read.err = ""
        /\ icon.read.rec.DayIcon = icon.pt.DayIcon
        /\ icon.read.rec.NightIcon = icon.pt.NightIcon
        /\ icon.read.rec.Labels = icon.pt.Labels

====
